---- MODULE Spec2Model ----
(***************************************************************************)
(* A state-machine model of three subsystems of the relay:                 *)
(*   - the managed pluggable-transport proxies of                          *)
(*     src/feature/client/transports.c            (specification SpecPt;   *)
(*     SpecPtRegistration runs two proxies that announce one transport),   *)
(*   - bandwidth accounting and hibernation of hibernate.c                 *)
(*     (src/unnamed/part_000)                     (specification SpecHib), *)
(*   - the circuit build timeout learner of src/core/or/circuitstats.c     *)
(*     (specification SpecCbt; SpecCbtState adds the save and the load of  *)
(*     the state file).                                                    *)
(* and of two library modules of src/unnamed/part_005:                     *)
(*   - the memory arena of memarea.c              (specification SpecMem), *)
(*   - the address comparison of address.c       (specification SpecAddr). *)
(* Each specification moves the variables of its own subsystem and leaves  *)
(* the others unchanged.                                                   *)
(***************************************************************************)
EXTENDS Integers, Sequences, FiniteSets, TLC

VARIABLES
  \* ---- transports.c ----
  managed_proxy_list,        \* the managed_proxy_t objects in the list
  transport_list,            \* the registered transport_t objects
  unconfigured_proxies_n,    \* int counter
  check_if_restarts_needed,  \* flag
  pt_proxy_uri,              \* what get_pt_proxy_uri() returns for the options in force
  cfg_reading,               \* a config read is between prepare and sweep
  cfg_lines,                 \* transport-plugin lines of the config being read
  cfg_todo,                  \* those of them not parsed yet
  stdout_line,               \* argument of the stdout callback that ran last
  pt_aborted,                \* a tor_assert failed: the process is gone
  transports_before_config_read, \* history, from a config read until a proxy next writes a line: transports_to_launch of each proxy the read kept, as it was before the read
  \* ---- hibernate.c ----
  hibernate_state,
  hibernate_end_time,
  n_bytes_read_in_interval,
  n_bytes_written_in_interval,
  n_seconds_active_in_interval,
  n_seconds_to_hit_soft_limit,
  soft_limit_hit_at,
  n_bytes_at_soft_limit,
  interval_start_time,
  interval_end_time,
  interval_wakeup_time,
  expected_bandwidth_usage,
  cfg_start_hour,
  AccountingMax,             \* get_options()->AccountingMax
  AccountingRule,            \* get_options()->AccountingRule
  identity_key,              \* the server identity key the wakeup digest is made of
  wakeup_event_at,           \* when the scheduled wakeup_event fires, 0 if it is not scheduled
  shutdown_time,
  or_state,                  \* the Accounting* fields of get_or_state()
  last_time_noted,           \* static of time_to_record_bandwidth_usage
  hib_process,               \* "running", "exited" (tor_shutdown_event_loop_and_exit) or "aborted" (tor_assert)
  now,                       \* the wall clock, in seconds
  hib_call,                  \* the call of consider_hibernation that ran last, with the state it started from
  \* ---- circuitstats.c ----
  circ_times,                \* static circuit_build_times_t circ_times
  cbt_state,                 \* the build-time fields of get_or_state()
  cbt_disabled,              \* what circuit_build_times_disabled(get_options()) returns
  circuits,                  \* the origin circuits being built
  cbt_call,                  \* the handler that ran last, with its arguments
  \* ---- memarea.c ----
  area,                      \* the chunks of a memarea_t, from area->first along next_chunk
  returned,                  \* history: the regions memarea_alloc returned since the last clear, in order
  mem_call,                  \* the memarea function that ran last, with its arguments and result
  \* ---- address.c ----
  cmp_call                   \* the address comparison that ran last, with its arguments and result

ptvars == <<managed_proxy_list, transport_list, unconfigured_proxies_n,
            check_if_restarts_needed, pt_proxy_uri, cfg_reading, cfg_lines,
            cfg_todo, stdout_line, pt_aborted, transports_before_config_read>>

hibvars == <<hibernate_state, hibernate_end_time, n_bytes_read_in_interval,
             n_bytes_written_in_interval, n_seconds_active_in_interval,
             n_seconds_to_hit_soft_limit, soft_limit_hit_at, n_bytes_at_soft_limit, interval_start_time,
             interval_end_time, interval_wakeup_time, expected_bandwidth_usage,
             cfg_start_hour, AccountingMax, AccountingRule, identity_key,
             wakeup_event_at, shutdown_time, or_state, last_time_noted, hib_process,
             now, hib_call>>

cbtvars == <<circ_times, cbt_state, cbt_disabled, circuits, cbt_call>>

memvars == <<area, returned, mem_call>>

addrvars == <<cmp_call>>

vars == <<ptvars, hibvars, cbtvars, memvars, addrvars>>

NULL == "NULL"

(***************************************************************************)
(*                    transports.c: managed proxies                        *)
(***************************************************************************)

PT_PROTO_INFANT == "PT_PROTO_INFANT"
PT_PROTO_LAUNCHED == "PT_PROTO_LAUNCHED"
PT_PROTO_ACCEPTING_METHODS == "PT_PROTO_ACCEPTING_METHODS"
PT_PROTO_CONFIGURED == "PT_PROTO_CONFIGURED"
PT_PROTO_COMPLETED == "PT_PROTO_COMPLETED"
PT_PROTO_BROKEN == "PT_PROTO_BROKEN"
PT_PROTO_FAILED_LAUNCH == "PT_PROTO_FAILED_LAUNCH"

PROTO_ENV_ERROR == "ENV-ERROR"
PROTO_NEG_SUCCESS == "VERSION"
PROTO_NEG_FAIL == <<"VERSION-ERROR", "no-version">>
PROTO_CMETHOD == "CMETHOD"
PROTO_SMETHOD == "SMETHOD"
PROTO_CMETHOD_ERROR == "CMETHOD-ERROR"
PROTO_SMETHOD_ERROR == "SMETHOD-ERROR"
PROTO_CMETHODS_DONE == <<"CMETHODS", "DONE">>
PROTO_SMETHODS_DONE == <<"SMETHODS", "DONE">>
PROTO_PROXY_DONE == <<"PROXY", "DONE">>
PROTO_PROXY_ERROR == "PROXY-ERROR"
PROTO_LOG == "LOG"
PROTO_STATUS == "STATUS"

\* Bound: a proxy announces at most this many transports (mp->transports).
MaxTransports == 1

\* The command lines of the proxies a configuration may name.
ProxyArgvs == { <<"obfs4proxy">>, <<"obfs4proxy", "-v">> }

\* The transport names a configuration may ask for.
TransportNames == { "obfs4", "meek" }

\* The ClientTransportPlugin / ServerTransportPlugin lines a configuration may
\* hold, as pt_kickstart_proxy receives them.
PluginLines ==
  { [with_transport_list |-> {"obfs4"}, proxy_argv |-> <<"obfs4proxy">>, is_server |-> FALSE],
    [with_transport_list |-> {"meek"}, proxy_argv |-> <<"obfs4proxy">>, is_server |-> FALSE],
    [with_transport_list |-> {"obfs4"}, proxy_argv |-> <<"obfs4proxy", "-v">>, is_server |-> TRUE] }

\* The values get_pt_proxy_uri() can return.
ProxyUris == { NULL, "socks5://127.0.0.1:9" }

\* A line a proxy writes on its stdout, split at the blanks.
ProxyLines ==
  { <<"ENV-ERROR", "no-state-dir">>,
    <<"VERSION-ERROR", "no-version">>,
    <<"VERSION", "1">>,
    <<"VERSION", "2">>,
    <<"CMETHODS", "DONE">>,
    <<"SMETHODS", "DONE">>,
    <<"CMETHOD-ERROR", "meek", "no-rights">>,
    <<"CMETHOD", "obfs4", "socks5", "127.0.0.1:1">>,
    <<"CMETHOD", "meek", "socks4", "127.0.0.1:2">>,
    <<"CMETHOD", "obfs4">>,
    <<"CMETHOD", "ob-fs", "socks5", "127.0.0.1:1">>,
    <<"CMETHOD", "obfs4", "socks9", "127.0.0.1:1">>,
    <<"CMETHOD", "obfs4", "socks5", "127.0.0.1:0">>,
    <<"CMETHODX", "obfs4", "socks5", "127.0.0.1:1">>,
    <<"SMETHOD", "obfs4", "127.0.0.1:1">>,
    <<"PROXY", "DONE">>,
    <<"PROXY-ERROR", "refused">>,
    <<"LOG", "hello">>,
    <<"HELLO">> }

\* string_is_C_identifier over the names above.
string_is_C_identifier(s) == s \in { "obfs4", "meek" }

\* tor_addr_port_split followed by the port and tor_addr_parse checks of
\* parse_method_line_helper: which addrport strings yield an address and a
\* nonzero port.
AddrportOk(s) == s \in { "127.0.0.1:1", "127.0.0.1:2" }

\* strcmpstart(tok, kw) = 0 for a first word tok of a line: the words above
\* that have keyword kw as a proper prefix.
ProperPrefix ==
  { <<"VERSION-ERROR", "VERSION">>,
    <<"CMETHODS", "CMETHOD">>, <<"CMETHOD-ERROR", "CMETHOD">>, <<"CMETHODX", "CMETHOD">>,
    <<"SMETHODS", "SMETHOD">>, <<"SMETHOD-ERROR", "SMETHOD">>,
    <<"PROXY-ERROR", "PROXY">> }

WordStarts(tok, kw) == tok = kw \/ <<tok, kw>> \in ProperPrefix

\* strcmpstart(line, proto) = 0 where proto is one keyword.
strcmpstart1(line, kw) == Len(line) >= 1 /\ WordStarts(line[1], kw)

\* strcmpstart(line, proto) = 0 where proto is two words: the line's first two
\* words are those.
strcmpstart2(line, proto) ==
  Len(line) >= 2 /\ line[1] = proto[1] /\ line[2] = proto[2]

\* strcmpstart(line, PROTO_LOG " ") = 0: the keyword followed by a blank.
strcmpstartsp(line, kw) == Len(line) >= 2 /\ line[1] = kw

Key(mp) == <<mp.argv, mp.is_server>>

\* ---- the transport list (transport_t: name, addrport, marked_for_removal) ----

transport_new(name, addrport) ==
  [name |-> name, addrport |-> addrport, marked_for_removal |-> FALSE]

mark_transport_list(tl) == { [t EXCEPT !.marked_for_removal = TRUE] : t \in tl }

sweep_transport_list(tl) == { t \in tl : ~t.marked_for_removal }

\* The set of entries of tl named name (empty for a NULL result).
transport_get_by_name(tl, name) == { t \in tl : t.name = name }

\* A faulty variant of transport_resolve_conflicts that lets the newcomer
\* replace a transport in use; C12 fails under it.
resolve_conflicts_for_newcomer(tl, t) ==
  LET old == transport_get_by_name(tl, t.name) IN
  IF old = {} THEN 0
  ELSE IF (CHOOSE x \in old : TRUE).addrport = t.addrport THEN 1 ELSE 0

\* 0: register t; 1: the same transport is registered already; -1: conflict.
transport_resolve_conflicts(tl, t) ==
  LET old == transport_get_by_name(tl, t.name) IN
  IF old = {} THEN 0
  ELSE LET t_tmp == CHOOSE x \in old : TRUE IN
       IF t_tmp.addrport = t.addrport THEN 1
       ELSE IF t_tmp.marked_for_removal THEN 0 ELSE -1

\* transport_add with the side effects of transport_resolve_conflicts: the
\* list after the call.
transport_add(tl, t) ==
  LET old == transport_get_by_name(tl, t.name)
      r == transport_resolve_conflicts(tl, t) IN
  IF old = {} THEN tl \cup {t}
  ELSE IF r = 1 THEN (tl \ old) \cup { [x EXCEPT !.marked_for_removal = FALSE] : x \in old }
  ELSE IF r = 0 THEN (tl \ old) \cup {t}
  ELSE tl

\* register_client_proxy: transport_add of a copy of each of mp->transports,
\* in order.
RECURSIVE register_client_proxy(_, _)
register_client_proxy(ts, tl) ==
  IF ts = <<>> THEN tl
  ELSE register_client_proxy(Tail(ts), transport_add(tl, Head(ts)))

\* register_server_proxy saves to the state file and leaves the list alone.
register_proxy(mp, tl) ==
  IF mp.is_server THEN tl ELSE register_client_proxy(mp.transports, tl)

\* ---- parsing the lines of a proxy ----

parse_version(line) ==
  IF Len(line) = 2 /\ line[1] = PROTO_NEG_SUCCESS /\ line[2] = "1" THEN 0 ELSE -1

min_args_count(is_smethod) == IF is_smethod THEN 3 ELSE 4

method_str(is_smethod) == IF is_smethod THEN PROTO_SMETHOD ELSE PROTO_CMETHOD

\* parse_method_line_helper: r is its return value, mp the proxy afterwards,
\* asserted whether tor_assert(!strcmp(items[0], method_str)) fails.
parse_method_line_helper(line, mp, is_smethod) ==
  LET err == [r |-> -1, mp |-> mp, asserted |-> FALSE]
      addrport == line[IF is_smethod THEN 3 ELSE 4] IN
  IF Len(line) < min_args_count(is_smethod) THEN err
  ELSE IF line[1] # method_str(is_smethod)
    THEN [r |-> -1, mp |-> mp, asserted |-> TRUE]
  ELSE IF ~string_is_C_identifier(line[2]) THEN err
  ELSE IF ~is_smethod /\ line[3] \notin {"socks4", "socks5"} THEN err
  ELSE IF ~AddrportOk(addrport) THEN err
  ELSE [r |-> 0, asserted |-> FALSE,
        mp |-> [mp EXCEPT !.transports = Append(@, transport_new(line[2], addrport))]]

\* handle_proxy_line: the proxy afterwards, and whether an assertion failed.
handle_proxy_line(line, mp) ==
  LET ok(m) == [mp |-> m, asserted |-> FALSE]
      err == ok([mp EXCEPT !.conf_state = PT_PROTO_BROKEN])
      method(is_smethod) ==
        LET p == parse_method_line_helper(line, mp, is_smethod) IN
        IF p.asserted THEN [mp |-> mp, asserted |-> TRUE]
        ELSE IF p.r < 0 THEN err ELSE ok(p.mp) IN
  IF strcmpstart1(line, PROTO_ENV_ERROR) THEN err
  ELSE IF strcmpstart2(line, PROTO_NEG_FAIL) THEN err
  ELSE IF strcmpstart1(line, PROTO_NEG_SUCCESS) THEN
    IF mp.conf_state # PT_PROTO_LAUNCHED THEN err
    ELSE IF parse_version(line) < 0 THEN err
    ELSE ok([mp EXCEPT !.conf_state = PT_PROTO_ACCEPTING_METHODS])
  ELSE IF strcmpstart2(line, PROTO_CMETHODS_DONE) \/ strcmpstart2(line, PROTO_SMETHODS_DONE) THEN
    IF mp.conf_state # PT_PROTO_ACCEPTING_METHODS THEN err
    ELSE ok([mp EXCEPT !.conf_state = PT_PROTO_CONFIGURED])
  ELSE IF strcmpstart1(line, PROTO_CMETHOD_ERROR) \/ strcmpstart1(line, PROTO_SMETHOD_ERROR) THEN
    IF mp.conf_state # PT_PROTO_ACCEPTING_METHODS THEN err ELSE ok(mp)
  ELSE IF strcmpstart1(line, PROTO_CMETHOD) THEN
    IF mp.conf_state # PT_PROTO_ACCEPTING_METHODS THEN err ELSE method(FALSE)
  ELSE IF strcmpstart1(line, PROTO_SMETHOD) THEN
    IF mp.conf_state # PT_PROTO_ACCEPTING_METHODS THEN err ELSE method(TRUE)
  ELSE IF strcmpstart2(line, PROTO_PROXY_DONE) THEN
    IF mp.conf_state # PT_PROTO_ACCEPTING_METHODS THEN err
    ELSE IF mp.proxy_uri # NULL THEN ok([mp EXCEPT !.proxy_supported = TRUE])
    ELSE ok(mp)
  ELSE IF strcmpstart1(line, PROTO_PROXY_ERROR) THEN err
  ELSE IF strcmpstartsp(line, PROTO_LOG) THEN ok(mp)     \* parse_log_line only logs
  ELSE IF strcmpstartsp(line, PROTO_STATUS) THEN ok(mp)  \* parse_status_line only logs
  ELSE ok(mp)                                            \* "Unknown line received"

\* A faulty variant of proxy_configuration_finished that overlooks broken
\* proxies; C5 fails under it.
finished_unless_broken(mp) ==
  mp.conf_state \in {PT_PROTO_CONFIGURED, PT_PROTO_FAILED_LAUNCH}

proxy_configuration_finished(mp) ==
  mp.conf_state \in {PT_PROTO_CONFIGURED, PT_PROTO_BROKEN, PT_PROTO_FAILED_LAUNCH}

\* ---- the proxy list.  An operator below that changes the globals takes and
\* ---- returns them as st = [mpl, tl, n]: managed_proxy_list, transport_list,
\* ---- unconfigured_proxies_n.

\* Whether assert_unconfigured_count_ok passes.
assert_unconfigured_count_ok(mpl, n) ==
  LET n_completed == Cardinality({ mp \in mpl : mp.conf_state = PT_PROTO_COMPLETED }) IN
  n_completed + n = Cardinality(mpl)

\* The proxies of the list with this argv and type (empty for NULL).
get_managed_proxy_by_argv_and_type(mpl, proxy_argv, is_server) ==
  { mp \in mpl : mp.argv = proxy_argv /\ mp.is_server = is_server }

add_transport_to_proxy(transport, mp) ==
  [mp EXCEPT !.transports_to_launch = @ \cup {transport}]

managed_proxy_destroy(mp, st) == [st EXCEPT !.mpl = @ \ {mp}]

handle_finished_proxy(mp, st) ==
  LET handled ==
        IF mp.conf_state \in {PT_PROTO_BROKEN, PT_PROTO_FAILED_LAUNCH}
          THEN managed_proxy_destroy(mp, st)
        ELSE IF mp.proxy_uri # NULL /\ ~mp.proxy_supported
          THEN managed_proxy_destroy(mp, st)
        ELSE [st EXCEPT !.tl = register_proxy(mp, @),
                        !.mpl = (@ \ {mp}) \cup {[mp EXCEPT !.conf_state = PT_PROTO_COMPLETED]}] IN
  [handled EXCEPT !.n = @ - 1]

\* Whether the tor_asserts of proxy_needs_restart pass.
proxy_needs_restart_asserts_ok(mp, uri) ==
  uri # mp.proxy_uri
  \/ (mp.transports_to_launch # {} /\ mp.conf_state = PT_PROTO_COMPLETED)

\* A faulty variant of proxy_needs_restart that overlooks a change of the
\* outgoing proxy; C11 fails under it.
needs_restart_ignoring_proxy_uri(mp, uri) ==
  IF Cardinality(mp.transports_to_launch) # Len(mp.transports) THEN TRUE
  ELSE \E i \in 1..Len(mp.transports) :
         mp.transports[i].name \notin mp.transports_to_launch

proxy_needs_restart(mp, uri) ==
  IF uri # mp.proxy_uri THEN TRUE
  ELSE IF Cardinality(mp.transports_to_launch) # Len(mp.transports) THEN TRUE
  ELSE \E i \in 1..Len(mp.transports) :
         mp.transports[i].name \notin mp.transports_to_launch

\* st.mpl holds mp; afterwards it holds the proxy flagged as an infant.
proxy_prepare_for_restart(mp, uri, st) ==
  LET names == { mp.transports[i].name : i \in 1..Len(mp.transports) }
      marked == { IF t.name \in names THEN [t EXCEPT !.marked_for_removal = TRUE] ELSE t
                  : t \in st.tl }
      mp2 == [mp EXCEPT !.transports = <<>>, !.proxy_uri = uri,
                        !.proxy_supported = FALSE, !.conf_state = PT_PROTO_INFANT] IN
  [mpl |-> (st.mpl \ {mp}) \cup {mp2},
   tl |-> sweep_transport_list(marked),
   n |-> st.n + 1]

\* configure_proxy of a proxy whose configuration is not finished; launch_ok
\* is whether process_exec gives a running process.
configure_proxy(mp, launch_ok, st) ==
  IF mp.conf_state = PT_PROTO_INFANT THEN
    IF launch_ok
      THEN [st EXCEPT !.mpl = (@ \ {mp}) \cup {[mp EXCEPT !.conf_state = PT_PROTO_LAUNCHED]}]
      ELSE LET mp2 == [mp EXCEPT !.conf_state = PT_PROTO_FAILED_LAUNCH] IN
           handle_finished_proxy(mp2, [st EXCEPT !.mpl = (@ \ {mp}) \cup {mp2}])
  ELSE st

\* The body of the loop of pt_configure_remaining_proxies for one proxy.
configure_one(mp, uri, launch_ok, st) ==
  IF mp.was_around_before_config_read THEN
    LET mp1 == [mp EXCEPT !.was_around_before_config_read = FALSE]
        st1 == [st EXCEPT !.mpl = (@ \ {mp}) \cup {mp1}] IN
    IF proxy_needs_restart(mp1, uri) THEN proxy_prepare_for_restart(mp1, uri, st1) ELSE st1
  ELSE IF ~proxy_configuration_finished(mp) THEN configure_proxy(mp, launch_ok, st)
  ELSE st

\* The loop over tmp, the copy of the list: fails are the proxies whose launch fails.
RECURSIVE configure_all(_, _, _, _)
configure_all(tmp, uri, fails, st) ==
  IF tmp = {} THEN st
  ELSE LET mp == CHOOSE x \in tmp : TRUE IN
       configure_all(tmp \ {mp}, uri, fails, configure_one(mp, uri, mp \notin fails, st))

managed_proxy_create(line, uri) ==
  [argv |-> line.proxy_argv, is_server |-> line.is_server,
   conf_state |-> PT_PROTO_INFANT, transports |-> <<>>,
   transports_to_launch |-> line.with_transport_list,
   proxy_uri |-> uri, proxy_supported |-> FALSE,
   marked_for_removal |-> FALSE, was_around_before_config_read |-> FALSE]

NoLine == [key |-> NULL, line |-> <<>>]

St == [mpl |-> managed_proxy_list, tl |-> transport_list, n |-> unconfigured_proxies_n]

SetSt(st) ==
  /\ managed_proxy_list' = st.mpl
  /\ transport_list' = st.tl
  /\ unconfigured_proxies_n' = st.n

\* A failed tor_assert ends the process.
PtAbort ==
  /\ pt_aborted' = TRUE
  /\ stdout_line' = NoLine
  /\ UNCHANGED <<managed_proxy_list, transport_list, unconfigured_proxies_n,
                 check_if_restarts_needed, pt_proxy_uri, cfg_reading, cfg_lines, cfg_todo,
                 transports_before_config_read>>

\* No call of consider_hibernation is on record.
NoCall == [op |-> "none"]

\* The build timeout learner before circuit_build_times_init has run.
CbtIdle ==
  /\ circ_times = [total_build_times |-> 0]
  /\ cbt_state = [TotalBuildTimes |-> 0]
  /\ cbt_disabled = TRUE
  /\ circuits = <<>>
  /\ cbt_call = NoCall

\* No memarea has been made.
MemIdle ==
  /\ area = <<>>
  /\ returned = <<>>
  /\ mem_call = NoCall

AddrIdle == cmp_call = NoCall

\* The state of the other subsystems, which SpecPt leaves alone.
HibIdle ==
  /\ hibernate_state = "HIBERNATE_STATE_INITIAL"
  /\ hibernate_end_time = 0
  /\ n_bytes_read_in_interval = 0
  /\ n_bytes_written_in_interval = 0
  /\ n_seconds_active_in_interval = 0
  /\ n_seconds_to_hit_soft_limit = 0
  /\ soft_limit_hit_at = 0
  /\ n_bytes_at_soft_limit = 0
  /\ interval_start_time = 0
  /\ interval_end_time = 0
  /\ interval_wakeup_time = 0
  /\ expected_bandwidth_usage = 0
  /\ cfg_start_hour = 0
  /\ AccountingMax = 0
  /\ AccountingRule = "ACCT_MAX"
  /\ identity_key = 0
  /\ wakeup_event_at = 0
  /\ shutdown_time = 0
  /\ or_state = <<>>
  /\ last_time_noted = 0
  /\ hib_process = "running"
  /\ now = 0
  /\ hib_call = NoCall

\* The statics of transports.c as the file initializes them.
PtStart ==
  /\ managed_proxy_list = {}
  /\ transport_list = {}
  /\ unconfigured_proxies_n = 0
  /\ check_if_restarts_needed = FALSE
  /\ pt_proxy_uri = NULL
  /\ cfg_reading = FALSE
  /\ cfg_lines = {}
  /\ cfg_todo = {}
  /\ stdout_line = NoLine
  /\ pt_aborted = FALSE
  /\ transports_before_config_read = <<>>

InitPt == PtStart /\ HibIdle /\ CbtIdle /\ MemIdle /\ AddrIdle

\* A faulty variant of mark_for_config_read that forgets to clear
\* transports_to_launch; C9 fails under it.
mark_keeping_transports_to_launch(mp) ==
  [mp EXCEPT !.marked_for_removal = TRUE, !.was_around_before_config_read = TRUE]

\* What pt_prepare_proxy_list_for_config_read does to a completed proxy.
mark_for_config_read(mp) ==
  [mp EXCEPT !.marked_for_removal = TRUE,
             !.was_around_before_config_read = TRUE,
             !.transports_to_launch = {}]

\* A config read begins (options_act): the new options, with their plugin lines
\* cfg and their outgoing proxy uri, are in force; mark_transport_list and then
\* pt_prepare_proxy_list_for_config_read run.
pt_prepare_proxy_list_for_config_read(cfg, uri) ==
  /\ ~pt_aborted /\ ~cfg_reading
  /\ IF ~assert_unconfigured_count_ok(managed_proxy_list, unconfigured_proxies_n)
       THEN PtAbort
     ELSE
       LET destroyed == { mp \in managed_proxy_list : mp.conf_state # PT_PROTO_COMPLETED }
           kept == { mark_for_config_read(mp) : mp \in managed_proxy_list \ destroyed }
           n == unconfigured_proxies_n - Cardinality(destroyed) IN
       IF ~assert_unconfigured_count_ok(kept, n) \/ n # 0
         THEN PtAbort
       ELSE /\ managed_proxy_list' = kept
            /\ unconfigured_proxies_n' = n
            /\ transport_list' = mark_transport_list(transport_list)
            /\ pt_proxy_uri' = uri
            /\ cfg_reading' = TRUE
            /\ cfg_lines' = cfg
            /\ cfg_todo' = cfg
            /\ stdout_line' = NoLine
            /\ transports_before_config_read' =
                 [k \in { Key(mp) : mp \in managed_proxy_list \ destroyed } |->
                    (CHOOSE mp \in managed_proxy_list : Key(mp) = k).transports_to_launch]
            /\ UNCHANGED <<check_if_restarts_needed, pt_aborted>>

\* A faulty variant of unmark_known_proxy that leaves the removal mark; C10
\* fails under it.
unmark_nothing(mp) == mp

\* What pt_kickstart_proxy does to the marks of a known proxy.
unmark_known_proxy(mp) ==
  IF mp.was_around_before_config_read
    THEN [mp EXCEPT !.marked_for_removal = FALSE] ELSE mp

\* One plugin line of the config being read is parsed.
pt_kickstart_proxy(line) ==
  /\ ~pt_aborted /\ cfg_reading
  /\ line \in cfg_todo
  /\ LET found == get_managed_proxy_by_argv_and_type(managed_proxy_list,
                                                     line.proxy_argv, line.is_server) IN
     IF line.proxy_argv = <<>> THEN
       /\ cfg_todo' = cfg_todo \ {line}
       /\ stdout_line' = NoLine
       /\ UNCHANGED <<managed_proxy_list, transport_list, unconfigured_proxies_n,
                      check_if_restarts_needed, pt_proxy_uri, cfg_reading, cfg_lines,
                      pt_aborted, transports_before_config_read>>
     ELSE IF found = {} THEN
       LET mpl == managed_proxy_list \cup {managed_proxy_create(line, pt_proxy_uri)}
           n == unconfigured_proxies_n + 1 IN
       IF ~assert_unconfigured_count_ok(mpl, n) THEN PtAbort
       ELSE /\ managed_proxy_list' = mpl
            /\ unconfigured_proxies_n' = n
            /\ cfg_todo' = cfg_todo \ {line}
            /\ stdout_line' = NoLine
            /\ UNCHANGED <<transport_list, check_if_restarts_needed, pt_proxy_uri,
                           cfg_reading, cfg_lines, pt_aborted,
                           transports_before_config_read>>
     ELSE
       LET mp == CHOOSE x \in found : TRUE
           around == mp.was_around_before_config_read
           mp1 == unmark_known_proxy(mp)
           mp2 == [mp1 EXCEPT !.transports_to_launch = @ \cup line.with_transport_list] IN
       /\ managed_proxy_list' = (managed_proxy_list \ {mp}) \cup {mp2}
       /\ check_if_restarts_needed' =
            IF around /\ mp.marked_for_removal THEN TRUE ELSE check_if_restarts_needed
       /\ transport_list' =
            IF around
              THEN { IF t.name \in line.with_transport_list
                       THEN [t EXCEPT !.marked_for_removal = FALSE] ELSE t
                     : t \in transport_list }
              ELSE transport_list
       /\ cfg_todo' = cfg_todo \ {line}
       /\ stdout_line' = NoLine
       /\ UNCHANGED <<unconfigured_proxies_n, pt_proxy_uri, cfg_reading, cfg_lines,
                      pt_aborted, transports_before_config_read>>

\* The config read ends: sweep_transport_list and then sweep_proxy_list run.
sweep_proxy_list ==
  /\ ~pt_aborted /\ cfg_reading
  /\ cfg_todo = {}
  /\ LET mpl == { mp \in managed_proxy_list : ~mp.marked_for_removal } IN
     IF \/ ~assert_unconfigured_count_ok(managed_proxy_list, unconfigured_proxies_n)
        \/ ~assert_unconfigured_count_ok(mpl, unconfigured_proxies_n)
       THEN PtAbort
     ELSE /\ managed_proxy_list' = mpl
          /\ transport_list' = sweep_transport_list(transport_list)
          /\ cfg_reading' = FALSE
          /\ stdout_line' = NoLine
          /\ UNCHANGED <<unconfigured_proxies_n, check_if_restarts_needed, pt_proxy_uri,
                         cfg_lines, cfg_todo, pt_aborted, transports_before_config_read>>

\* The tick: fails are the proxies whose launch fails if it is tried.
pt_configure_remaining_proxies(fails) ==
  /\ ~pt_aborted /\ ~cfg_reading
  /\ LET st == configure_all(managed_proxy_list, pt_proxy_uri, fails, St) IN
     IF \/ ~assert_unconfigured_count_ok(managed_proxy_list, unconfigured_proxies_n)
        \/ \E mp \in managed_proxy_list :
             \/ mp.conf_state \in {PT_PROTO_BROKEN, PT_PROTO_FAILED_LAUNCH}
             \/ /\ mp.was_around_before_config_read
                /\ ~proxy_needs_restart_asserts_ok(mp, pt_proxy_uri)
        \/ ~assert_unconfigured_count_ok(st.mpl, st.n)
       THEN PtAbort
     ELSE /\ SetSt(st)
          /\ check_if_restarts_needed' = FALSE
          /\ stdout_line' = NoLine
          /\ UNCHANGED <<pt_proxy_uri, cfg_reading, cfg_lines, cfg_todo, pt_aborted,
                         transports_before_config_read>>

\* A launched proxy (process_get_data gives it from launch_managed_proxy until
\* it is destroyed or prepared for restart) writes a line on its stdout.
managed_proxy_stdout_callback(mp, line) ==
  /\ ~pt_aborted /\ ~cfg_reading
  /\ mp \in managed_proxy_list
  /\ mp.conf_state # PT_PROTO_INFANT
  /\ LET h == handle_proxy_line(line, mp)
         st == [St EXCEPT !.mpl = (@ \ {mp}) \cup {h.mp}] IN
     /\ Len(h.mp.transports) <= MaxTransports
     /\ IF h.asserted THEN PtAbort
        ELSE /\ SetSt(IF proxy_configuration_finished(h.mp)
                        THEN handle_finished_proxy(h.mp, st) ELSE st)
             /\ stdout_line' = [key |-> Key(mp), line |-> line]
             /\ transports_before_config_read' = <<>>
             /\ UNCHANGED <<check_if_restarts_needed, pt_proxy_uri, cfg_reading,
                            cfg_lines, cfg_todo, pt_aborted>>

NextPt ==
  \/ /\ \E cfg \in SUBSET PluginLines, uri \in ProxyUris :
          pt_prepare_proxy_list_for_config_read(cfg, uri)
     /\ UNCHANGED <<hibvars, cbtvars, memvars, addrvars>>
  \/ /\ \E line \in PluginLines : pt_kickstart_proxy(line)
     /\ UNCHANGED <<hibvars, cbtvars, memvars, addrvars>>
  \/ /\ sweep_proxy_list
     /\ UNCHANGED <<hibvars, cbtvars, memvars, addrvars>>
  \/ /\ \E fails \in SUBSET managed_proxy_list : pt_configure_remaining_proxies(fails)
     /\ UNCHANGED <<hibvars, cbtvars, memvars, addrvars>>
  \/ /\ \E mp \in managed_proxy_list, line \in ProxyLines :
          managed_proxy_stdout_callback(mp, line)
     /\ UNCHANGED <<hibvars, cbtvars, memvars, addrvars>>

SpecPt == InitPt /\ [][NextPt]_vars

\* The registration of transports: the same handlers, with configurations
\* that name up to two client proxies and with proxies that keep to the
\* protocol and may announce one transport name at different addresses.
RegistrationPluginLines ==
  { [with_transport_list |-> {"obfs4"}, proxy_argv |-> <<"obfs4proxy">>, is_server |-> FALSE],
    [with_transport_list |-> {"obfs4"}, proxy_argv |-> <<"obfs4proxy", "-v">>, is_server |-> FALSE] }

RegistrationLines ==
  { <<"VERSION", "1">>,
    <<"CMETHOD", "obfs4", "socks5", "127.0.0.1:1">>,
    <<"CMETHOD", "obfs4", "socks5", "127.0.0.1:2">>,
    <<"CMETHODS", "DONE">>,
    <<"SMETHOD", "obfs4", "127.0.0.1:1">>,
    <<"SMETHODS", "DONE">>,
    <<"PROXY", "DONE">> }

NextPtRegistration ==
  \/ /\ \E cfg \in SUBSET RegistrationPluginLines, uri \in ProxyUris :
          pt_prepare_proxy_list_for_config_read(cfg, uri)
     /\ UNCHANGED <<hibvars, cbtvars, memvars, addrvars>>
  \/ /\ \E line \in RegistrationPluginLines : pt_kickstart_proxy(line)
     /\ UNCHANGED <<hibvars, cbtvars, memvars, addrvars>>
  \/ /\ sweep_proxy_list
     /\ UNCHANGED <<hibvars, cbtvars, memvars, addrvars>>
  \/ /\ \E fails \in SUBSET managed_proxy_list : pt_configure_remaining_proxies(fails)
     /\ UNCHANGED <<hibvars, cbtvars, memvars, addrvars>>
  \/ /\ \E mp \in managed_proxy_list, line \in RegistrationLines :
          managed_proxy_stdout_callback(mp, line)
     /\ UNCHANGED <<hibvars, cbtvars, memvars, addrvars>>

SpecPtRegistration == InitPt /\ [][NextPtRegistration]_vars

(***************************************************************************)
(*                 Properties of the managed proxies                       *)
(***************************************************************************)

Unconfigured(mpl) == { mp \in mpl : mp.conf_state # PT_PROTO_COMPLETED }

Keys(mpl) == { Key(mp) : mp \in mpl }

\* C4: between any two handlers (proxy creation, protocol line, tick, config
\* read, sweep) unconfigured_proxies_n equals the number of proxies of
\* managed_proxy_list that are not PT_PROTO_COMPLETED.
C4_CountMatchesList ==
  ~pt_aborted => unconfigured_proxies_n = Cardinality(Unconfigured(managed_proxy_list))

\* The step is a run of managed_proxy_stdout_callback that returned; its
\* arguments are stdout_line'.
StdoutStep == stdout_line'.key # NULL /\ vars' # vars

\* The proxy the callback of a StdoutStep is about, before the step.
StdoutProxy == CHOOSE mp \in managed_proxy_list : Key(mp) = stdout_line'.key

StdoutProxyDestroyed == stdout_line'.key \notin Keys(managed_proxy_list')

\* The state in which the configuration protocol expects a line that begins
\* with this word; a word not listed may come in any state.
ExpectedIn(word) ==
  IF word \in {"ENV-ERROR", "VERSION-ERROR", "VERSION"} THEN {PT_PROTO_LAUNCHED}
  ELSE IF word \in {"CMETHOD", "SMETHOD", "CMETHODS", "SMETHODS", "CMETHOD-ERROR",
                    "SMETHOD-ERROR", "PROXY", "PROXY-ERROR"}
    THEN {PT_PROTO_ACCEPTING_METHODS}
  ELSE {PT_PROTO_LAUNCHED, PT_PROTO_ACCEPTING_METHODS, PT_PROTO_COMPLETED}

\* The lines of ProxyLines that are not well-formed protocol lines.
MalformedLines ==
  { <<"VERSION", "2">>,
    <<"CMETHOD", "obfs4">>,
    <<"CMETHOD", "ob-fs", "socks5", "127.0.0.1:1">>,
    <<"CMETHOD", "obfs4", "socks9", "127.0.0.1:1">>,
    <<"CMETHOD", "obfs4", "socks5", "127.0.0.1:0">>,
    <<"CMETHODX", "obfs4", "socks5", "127.0.0.1:1">>,
    <<"LOG", "hello">>,
    <<"HELLO">> }

Rejected(line, conf_state) ==
  \/ line[1] \in {"ENV-ERROR", "VERSION-ERROR", "PROXY-ERROR"}
  \/ /\ line[1] \in {"VERSION", "CMETHOD", "SMETHOD", "CMETHODS", "SMETHODS",
                     "CMETHOD-ERROR", "SMETHOD-ERROR", "PROXY"}
     /\ conf_state \notin ExpectedIn(line[1])
  \/ line[1] = "VERSION" /\ line # <<"VERSION", "1">>
  \/ line[1] \in {"CMETHOD", "SMETHOD"} /\ line \in MalformedLines

\* The lines that are only logged: LOG and STATUS lines, well-formed or not,
\* unrecognised lines, and method errors while methods are accepted.
OnlyLogged(line, conf_state) ==
  \/ line[1] \in {"LOG", "STATUS", "HELLO"}
  \/ /\ line[1] \in {"CMETHOD-ERROR", "SMETHOD-ERROR"}
     /\ conf_state = PT_PROTO_ACCEPTING_METHODS

C9_PrepareMarksAndCounts ==
  [][ (~cfg_reading /\ cfg_reading') =>
        /\ Keys(managed_proxy_list') = Keys(managed_proxy_list \ Unconfigured(managed_proxy_list))
        /\ \A mp \in managed_proxy_list' :
             /\ mp.marked_for_removal
             /\ mp.was_around_before_config_read
             /\ mp.transports_to_launch = {}
             /\ \E old \in managed_proxy_list :
                  /\ old.conf_state = PT_PROTO_COMPLETED
                  /\ mp = [old EXCEPT !.marked_for_removal = TRUE,
                                      !.was_around_before_config_read = TRUE,
                                      !.transports_to_launch = {}]
        /\ unconfigured_proxies_n' = 0 ]_vars

\* C9 witness: the prepare step has just run and left two marked proxies.
C9_Witness ==
  /\ cfg_reading /\ cfg_todo = cfg_lines /\ ~pt_aborted
  /\ Cardinality(managed_proxy_list) = 2
  /\ \A mp \in managed_proxy_list : mp.marked_for_removal /\ mp.transports_to_launch = {}
  /\ unconfigured_proxies_n = 0

\* The config being read names the proxy.
NamedAgain(mp) ==
  \E line \in cfg_lines : line.proxy_argv = mp.argv /\ line.is_server = mp.is_server

\* C10: at the sweep that ends a config read, a proxy that was around before
\* the read stays in the list if and only if a line of the new configuration
\* named its argv and type; a proxy created during the read stays.
C10_SweepKeepsTheNamed ==
  [][ (cfg_reading /\ ~cfg_reading') =>
        \A mp \in managed_proxy_list :
          IF mp.was_around_before_config_read
            THEN (mp \in managed_proxy_list') <=> NamedAgain(mp)
            ELSE mp \in managed_proxy_list' ]_vars

\* C10 witness: the sweep has just run; a proxy named again is still there and
\* the new configuration names one proxy only.
C10_Witness ==
  /\ ~cfg_reading /\ ~pt_aborted /\ stdout_line = NoLine
  /\ \E mp \in managed_proxy_list :
       /\ mp.was_around_before_config_read /\ ~mp.marked_for_removal
       /\ mp.conf_state = PT_PROTO_COMPLETED
       /\ managed_proxy_list = {mp}
  /\ Cardinality({ <<l.proxy_argv, l.is_server>> : l \in cfg_lines }) = 1


\* The step is a run of pt_configure_remaining_proxies that returned.
TickStep ==
  /\ ~cfg_reading /\ ~cfg_reading'
  /\ stdout_line'.key = NULL
  /\ ~pt_aborted /\ ~pt_aborted'

\* The names of the transports the proxy launched.
LaunchedNames(mp) == { mp.transports[i].name : i \in 1..Len(mp.transports) }

\* The tick left the proxy running as it was.
NotRestarted(mp) ==
  [mp EXCEPT !.was_around_before_config_read = FALSE] \in managed_proxy_list'

\* The tick prepared the proxy for a restart: it is an infant again, its
\* transports are forgotten and unregistered, and it has the outgoing proxy
\* of the options in force.
Restarted(mp) ==
  /\ \E mp2 \in managed_proxy_list' :
       /\ Key(mp2) = Key(mp)
       /\ mp2.conf_state = PT_PROTO_INFANT
       /\ mp2.transports = <<>>
       /\ mp2.proxy_uri = pt_proxy_uri
       /\ ~mp2.was_around_before_config_read
  /\ \A t \in transport_list' : t.name \notin LaunchedNames(mp)

DoneStep ==
  /\ StdoutStep
  /\ stdout_line'.line \in {PROTO_CMETHODS_DONE, PROTO_SMETHODS_DONE}
  /\ StdoutProxy.conf_state = PT_PROTO_ACCEPTING_METHODS

\* The transport is in the list of registered transports and in use.
Registered(t, tl) ==
  \E r \in tl : r.name = t.name /\ r.addrport = t.addrport /\ ~r.marked_for_removal

\* The first transport with this name that the proxy announced.
FirstAnnounced(mp, name) ==
  mp.transports[CHOOSE i \in 1..Len(mp.transports) :
                  /\ mp.transports[i].name = name
                  /\ \A j \in 1..(i - 1) : mp.transports[j].name # name]

HIBERNATE_STATE_INITIAL == "HIBERNATE_STATE_INITIAL"
HIBERNATE_STATE_LIVE == "HIBERNATE_STATE_LIVE"
HIBERNATE_STATE_EXITING == "HIBERNATE_STATE_EXITING"
HIBERNATE_STATE_LOWBANDWIDTH == "HIBERNATE_STATE_LOWBANDWIDTH"
HIBERNATE_STATE_DORMANT == "HIBERNATE_STATE_DORMANT"

MIN_TIME_FOR_MEASUREMENT == 1800
INT_MAX == 2147483647
SOFT_LIM_BYTES == 500 * 1024 * 1024
SOFT_LIM_MINUTES == 3 * 60
NOTE_INTERVAL == 600

\* The options that stay as they are: BandwidthRate of 1 MByte, and
\* RelayBandwidthRate and ShutdownWaitLength at their defaults.
BandwidthRate == 1024 * 1024
RelayBandwidthRate == 0
ShutdownWaitLength == 30

\* struct tm arithmetic, in UTC with cfg_unit = UNIT_DAY and cfg_start_min = 0.
Hour == 60 * 60
Day == 24 * Hour

\* The bounds of the clock: it starts at StartTime and moves MaxClockSteps
\* times by ClockStep seconds.
ClockStep == 21600
MaxClockSteps == 4
StartTime == 2 * Day + 6 * Hour
MaxTime == StartTime + MaxClockSteps * ClockStep

\* The statics of hibernate.c and the options they are used with, as a record.
HibSt ==
  [ hibernate_state |-> hibernate_state,
    hibernate_end_time |-> hibernate_end_time,
    n_bytes_read_in_interval |-> n_bytes_read_in_interval,
    n_bytes_written_in_interval |-> n_bytes_written_in_interval,
    n_seconds_active_in_interval |-> n_seconds_active_in_interval,
    n_seconds_to_hit_soft_limit |-> n_seconds_to_hit_soft_limit,
    soft_limit_hit_at |-> soft_limit_hit_at,
    n_bytes_at_soft_limit |-> n_bytes_at_soft_limit,
    interval_start_time |-> interval_start_time,
    interval_end_time |-> interval_end_time,
    interval_wakeup_time |-> interval_wakeup_time,
    expected_bandwidth_usage |-> expected_bandwidth_usage,
    cfg_start_hour |-> cfg_start_hour,
    AccountingMax |-> AccountingMax,
    AccountingRule |-> AccountingRule,
    identity_key |-> identity_key,
    wakeup_event_at |-> wakeup_event_at,
    shutdown_time |-> shutdown_time,
    or_state |-> or_state,
    last_time_noted |-> last_time_noted,
    hib_process |-> hib_process ]

SetHib(h) ==
  /\ hibernate_state' = h.hibernate_state
  /\ hibernate_end_time' = h.hibernate_end_time
  /\ n_bytes_read_in_interval' = h.n_bytes_read_in_interval
  /\ n_bytes_written_in_interval' = h.n_bytes_written_in_interval
  /\ n_seconds_active_in_interval' = h.n_seconds_active_in_interval
  /\ n_seconds_to_hit_soft_limit' = h.n_seconds_to_hit_soft_limit
  /\ soft_limit_hit_at' = h.soft_limit_hit_at
  /\ n_bytes_at_soft_limit' = h.n_bytes_at_soft_limit
  /\ interval_start_time' = h.interval_start_time
  /\ interval_end_time' = h.interval_end_time
  /\ interval_wakeup_time' = h.interval_wakeup_time
  /\ expected_bandwidth_usage' = h.expected_bandwidth_usage
  /\ cfg_start_hour' = h.cfg_start_hour
  /\ AccountingMax' = h.AccountingMax
  /\ AccountingRule' = h.AccountingRule
  /\ identity_key' = h.identity_key
  /\ wakeup_event_at' = h.wakeup_event_at
  /\ shutdown_time' = h.shutdown_time
  /\ or_state' = h.or_state
  /\ last_time_noted' = h.last_time_noted
  /\ hib_process' = h.hib_process

accounting_is_enabled(h) == h.AccountingMax # 0

accounting_get_interval_length(h) == h.interval_end_time - h.interval_start_time

edge_of_accounting_period_containing(h, t, get_end) ==
  LET tm_hour == (t % Day) \div Hour
      before == tm_hour < h.cfg_start_hour
      tm_mday == (t \div Day) - (IF before THEN 1 ELSE 0) + (IF get_end THEN 1 ELSE 0)
  IN tm_mday * Day + h.cfg_start_hour * Hour

start_of_accounting_period_containing(h, t) ==
  edge_of_accounting_period_containing(h, t, FALSE)

start_of_accounting_period_after(h, t) ==
  edge_of_accounting_period_containing(h, t, TRUE)

length_of_accounting_period_containing(h, t) ==
  edge_of_accounting_period_containing(h, t, TRUE)
    - edge_of_accounting_period_containing(h, t, FALSE)

Max2(a, b) == IF a >= b THEN a ELSE b

get_accounting_bytes(h) ==
  IF h.AccountingRule = "ACCT_SUM"
    THEN h.n_bytes_read_in_interval + h.n_bytes_written_in_interval
  ELSE IF h.AccountingRule = "ACCT_IN" THEN h.n_bytes_read_in_interval
  ELSE IF h.AccountingRule = "ACCT_OUT" THEN h.n_bytes_written_in_interval
  ELSE Max2(h.n_bytes_read_in_interval, h.n_bytes_written_in_interval)

update_expected_bandwidth(h) ==
  LET rate == IF RelayBandwidthRate > 0 THEN RelayBandwidthRate ELSE BandwidthRate
      max_configured == IF h.AccountingRule = "ACCT_SUM" THEN rate * 60 * 2 ELSE rate * 60
      expected ==
        IF /\ h.soft_limit_hit_at > h.interval_start_time
           /\ h.n_bytes_at_soft_limit # 0
           /\ h.soft_limit_hit_at - h.interval_start_time > MIN_TIME_FOR_MEASUREMENT
          THEN (h.n_bytes_at_soft_limit
                  \div (h.soft_limit_hit_at - h.interval_start_time)) \div 60
        ELSE IF h.n_seconds_active_in_interval >= MIN_TIME_FOR_MEASUREMENT
          THEN get_accounting_bytes(h) \div (h.n_seconds_active_in_interval \div 60)
        ELSE 0
  IN [h EXCEPT !.expected_bandwidth_usage =
                 IF expected > max_configured THEN max_configured ELSE expected]

\* The one element of a singleton set. An intermediate state is bound as
\* the element of a singleton, so that it is computed once.
Only(S) == CHOOSE x \in S : TRUE

reset_accounting(h, t) ==
  Only({ LET start == start_of_accounting_period_containing(h1, t)
         IN [h1 EXCEPT !.interval_start_time = start,
                       !.interval_end_time = start_of_accounting_period_after(h1, start),
                       !.n_bytes_read_in_interval = 0,
                       !.n_bytes_written_in_interval = 0,
                       !.n_seconds_active_in_interval = 0,
                       !.n_bytes_at_soft_limit = 0,
                       !.soft_limit_hit_at = 0,
                       !.n_seconds_to_hit_soft_limit = 0]
         : h1 \in {update_expected_bandwidth(h)} })


\* The first four bytes of the digest of the identity key and the interval
\* start: a function of the two, the same whenever it is computed again
\* (kept below INT_MAX, the largest number the checker computes with).
get_uint32_digest(h) == (h.identity_key + h.interval_start_time) % INT_MAX

accounting_set_wakeup_time(h) ==
  IF h.expected_bandwidth_usage = 0
    THEN [h EXCEPT !.interval_wakeup_time = h.interval_start_time]
  ELSE
    LET exhaust == (h.AccountingMax \div h.expected_bandwidth_usage) * 60
        time_to_consider ==
          IF exhaust > INT_MAX THEN 0
          ELSE accounting_get_interval_length(h) - exhaust
    IN IF time_to_consider <= 0
         THEN [h EXCEPT !.interval_wakeup_time = h.interval_start_time]
         ELSE [h EXCEPT !.interval_wakeup_time =
                          h.interval_start_time + (get_uint32_digest(h) % time_to_consider)]

ROUND_UP(x) == ((x + 1023) \div 1024) * 1024

accounting_record_bandwidth_usage(h) ==
  [h EXCEPT !.or_state =
     [ AccountingIntervalStart |-> h.interval_start_time,
       AccountingBytesReadInInterval |-> ROUND_UP(h.n_bytes_read_in_interval),
       AccountingBytesWrittenInInterval |-> ROUND_UP(h.n_bytes_written_in_interval),
       AccountingSecondsActive |-> h.n_seconds_active_in_interval,
       AccountingExpectedUsage |-> h.expected_bandwidth_usage,
       AccountingSecondsToReachSoftLimit |-> h.n_seconds_to_hit_soft_limit,
       AccountingSoftLimitHitAt |-> h.soft_limit_hit_at,
       AccountingBytesAtSoftLimit |-> h.n_bytes_at_soft_limit ]]

read_bandwidth_usage(h) ==
  LET state == h.or_state
      soft == state.AccountingSoftLimitHitAt > state.AccountingIntervalStart
  IN [h EXCEPT !.n_bytes_read_in_interval = state.AccountingBytesReadInInterval,
               !.n_bytes_written_in_interval = state.AccountingBytesWrittenInInterval,
               !.n_seconds_active_in_interval = state.AccountingSecondsActive,
               !.interval_start_time = state.AccountingIntervalStart,
               !.expected_bandwidth_usage = state.AccountingExpectedUsage,
               !.soft_limit_hit_at = IF soft THEN state.AccountingSoftLimitHitAt ELSE 0,
               !.n_bytes_at_soft_limit = IF soft THEN state.AccountingBytesAtSoftLimit ELSE 0,
               !.n_seconds_to_hit_soft_limit =
                  IF soft THEN state.AccountingSecondsToReachSoftLimit ELSE 0]

\* configure_accounting up to its last call, accounting_set_wakeup_time.
configure_accounting_interval(h1, t) ==
  LET s_now == start_of_accounting_period_containing(h1, t)
      duration == length_of_accounting_period_containing(h1, h1.interval_start_time)
      moved == s_now - h1.interval_start_time
  IN IF h1.interval_start_time = 0 THEN reset_accounting(h1, t)
     ELSE IF s_now = h1.interval_start_time
       THEN [h1 EXCEPT !.interval_end_time =
               start_of_accounting_period_after(h1, h1.interval_start_time)]
     ELSE IF -duration <= 2 * moved /\ 2 * moved <= duration
       THEN [h1 EXCEPT !.interval_end_time = start_of_accounting_period_after(h1, t)]
     ELSE reset_accounting(h1, t)

configure_accounting(h, t) ==
  Only({ Only({ accounting_set_wakeup_time(h2)
                : h2 \in {configure_accounting_interval(h1, t)} })
         : h1 \in {IF h.interval_start_time = 0 THEN read_bandwidth_usage(h) ELSE h} })

\* last_read_bytes_noted and last_written_bytes_noted are left out: the byte
\* counts stay below NOTE_BYTES (20 MiB) here, so the tests on them are false.
time_to_record_bandwidth_usage(h, t) ==
  \/ h.last_time_noted + NOTE_INTERVAL <= t
  \/ (h.interval_end_time # 0 /\ h.interval_end_time <= t)

accounting_run_housekeeping(h, t) ==
  Only({ IF time_to_record_bandwidth_usage(h1, t)
           THEN accounting_record_bandwidth_usage([h1 EXCEPT !.last_time_noted = t])
           ELSE h1
         : h1 \in {IF t >= h.interval_end_time THEN configure_accounting(h, t) ELSE h} })

hibernate_hard_limit_reached(h) ==
  IF h.AccountingMax = 0 THEN FALSE
  ELSE get_accounting_bytes(h) >= h.AccountingMax

\* (uint64_t)(acct_max * .95) is the integer part of 95 hundredths of acct_max.
hibernate_soft_limit_reached(h) ==
  LET acct_max == h.AccountingMax
      pct == (acct_max * 95) \div 100
      lim1 == IF acct_max > SOFT_LIM_BYTES /\ acct_max - SOFT_LIM_BYTES > pct
                THEN acct_max - SOFT_LIM_BYTES ELSE pct
      expected_usage == h.expected_bandwidth_usage * SOFT_LIM_MINUTES
      soft_limit == IF /\ h.expected_bandwidth_usage # 0
                       /\ acct_max > expected_usage
                       /\ acct_max - expected_usage > lim1
                      THEN acct_max - expected_usage ELSE lim1
  IN IF soft_limit = 0 THEN FALSE ELSE get_accounting_bytes(h) >= soft_limit

hibernate_begin(h, new_state, t) ==
  IF new_state = HIBERNATE_STATE_EXITING /\ h.hibernate_state # HIBERNATE_STATE_LIVE
    THEN [h EXCEPT !.hib_process = "exited"]
  ELSE
    LET h1 == IF /\ new_state = HIBERNATE_STATE_LOWBANDWIDTH
                 /\ h.hibernate_state = HIBERNATE_STATE_LIVE
                THEN [h EXCEPT !.soft_limit_hit_at = t,
                               !.n_seconds_to_hit_soft_limit = h.n_seconds_active_in_interval,
                               !.n_bytes_at_soft_limit = get_accounting_bytes(h)]
                ELSE h
        h2 == IF new_state = HIBERNATE_STATE_EXITING
                THEN [h1 EXCEPT !.shutdown_time = t + ShutdownWaitLength + 5]
                ELSE [h1 EXCEPT !.hibernate_end_time = h1.interval_end_time]
    IN accounting_record_bandwidth_usage([h2 EXCEPT !.hibernate_state = new_state])

\* hibernate_go_dormant as it would be without its own end time and wakeup event.
hibernate_begin_dormant(h, t) == hibernate_begin(h, HIBERNATE_STATE_DORMANT, t)

hibernate_end(h, new_state) ==
  IF h.hibernate_state \notin {HIBERNATE_STATE_LOWBANDWIDTH, HIBERNATE_STATE_DORMANT,
                               HIBERNATE_STATE_INITIAL}
    THEN [h EXCEPT !.hib_process = "aborted"]
    ELSE [h EXCEPT !.hibernate_state = new_state, !.hibernate_end_time = 0]

hibernate_schedule_wakeup_event(h, t, end_time) ==
  [h EXCEPT !.wakeup_event_at = IF t >= end_time THEN t + 1 ELSE end_time]

hibernate_go_dormant(h, t) ==
  IF h.hibernate_state = HIBERNATE_STATE_DORMANT THEN h
  ELSE
    Only({ LET h2 == [h1 EXCEPT !.hibernate_end_time =
                        IF t < h1.interval_wakeup_time THEN h1.interval_wakeup_time
                        ELSE h1.interval_end_time]
           IN hibernate_schedule_wakeup_event(accounting_record_bandwidth_usage(h2), t,
                                              h2.hibernate_end_time)
           : h1 \in {IF h.hibernate_state = HIBERNATE_STATE_LOWBANDWIDTH
                       THEN [h EXCEPT !.hibernate_state = HIBERNATE_STATE_DORMANT]
                       ELSE hibernate_begin(h, HIBERNATE_STATE_DORMANT, t)} })


hibernate_end_time_elapsed(h, t) ==
  Only({ IF h1.interval_wakeup_time <= t THEN hibernate_end(h1, HIBERNATE_STATE_LIVE)
         ELSE LET h2 == [h1 EXCEPT !.hibernate_end_time = h1.interval_wakeup_time]
              IN IF h2.hibernate_state # HIBERNATE_STATE_DORMANT
                   THEN hibernate_go_dormant(h2, t) ELSE h2
         : h1 \in {accounting_run_housekeeping(h, t)} })

\* A dormant relay wakes up only once the interval it slept in is over.
dormant_while_interval_lasts(h, t) == t < h.interval_end_time /\ accounting_is_enabled(h)

\* The test of consider_hibernation that keeps a dormant relay asleep.
dormant_until_end_time(h, t) == h.hibernate_end_time > t /\ accounting_is_enabled(h)

consider_hibernation_live(h, t) ==
  IF hibernate_soft_limit_reached(h)
    THEN hibernate_begin(h, HIBERNATE_STATE_LOWBANDWIDTH, t)
  ELSE IF accounting_is_enabled(h) /\ t < h.interval_wakeup_time
    THEN hibernate_go_dormant(h, t)
  ELSE IF h.hibernate_state = HIBERNATE_STATE_INITIAL
    THEN hibernate_end(h, HIBERNATE_STATE_LIVE)
  ELSE h

consider_hibernation_lowbandwidth(h, t) ==
  IF ~accounting_is_enabled(h) THEN hibernate_end_time_elapsed(h, t)
  ELSE IF hibernate_hard_limit_reached(h) THEN hibernate_go_dormant(h, t)
  ELSE IF h.hibernate_end_time <= t THEN hibernate_end_time_elapsed(h, t)
  ELSE h

consider_hibernation(h, t) ==
  IF h.hibernate_state = HIBERNATE_STATE_EXITING
    THEN IF h.shutdown_time = 0 THEN [h EXCEPT !.hib_process = "aborted"]
         ELSE IF h.shutdown_time <= t THEN [h EXCEPT !.hib_process = "exited"]
         ELSE h
  ELSE IF h.hibernate_state = HIBERNATE_STATE_DORMANT /\ h.hibernate_end_time = 0
    THEN [h EXCEPT !.hib_process = "aborted"]
  ELSE IF h.hibernate_state = HIBERNATE_STATE_DORMANT /\ dormant_until_end_time(h, t)
    THEN h
  ELSE
    Only({ Only({ IF h2.hibernate_state = HIBERNATE_STATE_LOWBANDWIDTH
                    THEN consider_hibernation_lowbandwidth(h2, t) ELSE h2
                  : h2 \in {IF h1.hibernate_state \in {HIBERNATE_STATE_LIVE,
                                                       HIBERNATE_STATE_INITIAL}
                              THEN consider_hibernation_live(h1, t) ELSE h1} })
           : h1 \in {IF h.hibernate_state = HIBERNATE_STATE_DORMANT
                       THEN hibernate_end_time_elapsed(h, t) ELSE h} })

wakeup_event_callback(h, t) ==
  Only({ Only({ IF h2.hibernate_state # HIBERNATE_STATE_DORMANT THEN h2
                ELSE LET end_time == IF t < h2.interval_wakeup_time
                                       THEN h2.interval_wakeup_time
                                       ELSE h2.interval_end_time
                     IN hibernate_schedule_wakeup_event(
                          [h2 EXCEPT !.hibernate_end_time = end_time], t, end_time)
                : h2 \in {consider_hibernation(h1, t)} })
         : h1 \in {accounting_run_housekeeping([h EXCEPT !.wakeup_event_at = 0], t)} })


\* The inputs of the model.
AccountingMaxValues == {0, 20480}
AccountingRules == {"ACCT_MAX"}
StartHours == {0, 12}
IdentityKeys == {30000}
ByteCounts == {<<9728, 1024>>}
SecondCounts == {1}
MaxBytes == 32768
MaxActiveSeconds == 3

\* What the state file holds at startup: nothing, the usage of the interval
\* that began at StartTime - 6h, or the usage of an interval long over.
NoAccountingState ==
  [ AccountingIntervalStart |-> 0,
    AccountingBytesReadInInterval |-> 0,
    AccountingBytesWrittenInInterval |-> 0,
    AccountingSecondsActive |-> 0,
    AccountingExpectedUsage |-> 0,
    AccountingSecondsToReachSoftLimit |-> 0,
    AccountingSoftLimitHitAt |-> 0,
    AccountingBytesAtSoftLimit |-> 0 ]

StateFiles ==
  { NoAccountingState,
    [NoAccountingState EXCEPT !.AccountingIntervalStart = 2 * Day,
                              !.AccountingBytesReadInInterval = 19 * 1024,
                              !.AccountingSecondsActive = 2 * MIN_TIME_FOR_MEASUREMENT,
                              !.AccountingExpectedUsage = 1024],
    [NoAccountingState EXCEPT !.AccountingIntervalStart = 12 * Hour,
                              !.AccountingBytesReadInInterval = 30 * 1024,
                              !.AccountingBytesWrittenInInterval = 30 * 1024,
                              !.AccountingSecondsActive = 2 * MIN_TIME_FOR_MEASUREMENT] }

\* The values n_seconds_active_in_interval is let to reach.
ActiveSecondsRange ==
  (0 .. MaxActiveSeconds)
    \cup (2 * MIN_TIME_FOR_MEASUREMENT .. 2 * MIN_TIME_FOR_MEASUREMENT + MaxActiveSeconds)

\* The statics as the file initializes them, with the options and the state
\* file of this run.
StaticsAtStart(max, rule, hour, key, state) ==
  [ hibernate_state |-> HIBERNATE_STATE_INITIAL,
    hibernate_end_time |-> 0,
    n_bytes_read_in_interval |-> 0,
    n_bytes_written_in_interval |-> 0,
    n_seconds_active_in_interval |-> 0,
    n_seconds_to_hit_soft_limit |-> 0,
    soft_limit_hit_at |-> 0,
    n_bytes_at_soft_limit |-> 0,
    interval_start_time |-> 0,
    interval_end_time |-> 0,
    interval_wakeup_time |-> 0,
    expected_bandwidth_usage |-> 0,
    cfg_start_hour |-> hour,
    AccountingMax |-> max,
    AccountingRule |-> rule,
    identity_key |-> key,
    wakeup_event_at |-> 0,
    shutdown_time |-> 0,
    or_state |-> state,
    last_time_noted |-> 0,
    hib_process |-> "running" ]

\* The options are set: accounting_parse_options stores the start of the
\* interval, and configure_accounting runs if accounting is enabled.
set_options(h, max, rule, hour, t) ==
  Only({ IF accounting_is_enabled(h1) THEN configure_accounting(h1, t) ELSE h1
         : h1 \in {[h EXCEPT !.AccountingMax = max, !.AccountingRule = rule,
                             !.cfg_start_hour = hour]} })

HibStartsAs(h) ==
  /\ hibernate_state = h.hibernate_state
  /\ hibernate_end_time = h.hibernate_end_time
  /\ n_bytes_read_in_interval = h.n_bytes_read_in_interval
  /\ n_bytes_written_in_interval = h.n_bytes_written_in_interval
  /\ n_seconds_active_in_interval = h.n_seconds_active_in_interval
  /\ n_seconds_to_hit_soft_limit = h.n_seconds_to_hit_soft_limit
  /\ soft_limit_hit_at = h.soft_limit_hit_at
  /\ n_bytes_at_soft_limit = h.n_bytes_at_soft_limit
  /\ interval_start_time = h.interval_start_time
  /\ interval_end_time = h.interval_end_time
  /\ interval_wakeup_time = h.interval_wakeup_time
  /\ expected_bandwidth_usage = h.expected_bandwidth_usage
  /\ cfg_start_hour = h.cfg_start_hour
  /\ AccountingMax = h.AccountingMax
  /\ AccountingRule = h.AccountingRule
  /\ identity_key = h.identity_key
  /\ wakeup_event_at = h.wakeup_event_at
  /\ shutdown_time = h.shutdown_time
  /\ or_state = h.or_state
  /\ last_time_noted = h.last_time_noted
  /\ hib_process = h.hib_process

InitHib ==
  /\ PtStart
  /\ CbtIdle
  /\ MemIdle
  /\ AddrIdle
  /\ now = StartTime
  /\ hib_call = NoCall
  /\ \E max \in AccountingMaxValues, rule \in AccountingRules, hour \in StartHours,
        key \in IdentityKeys, state \in StateFiles :
       \E h \in {set_options(StaticsAtStart(max, rule, hour, key, state),
                              max, rule, hour, StartTime)} : HibStartsAs(h)

HibRunning == hib_process = "running"

\* The clock moves on.
AdvanceClock ==
  /\ HibRunning
  /\ now + ClockStep <= MaxTime
  /\ now' = now + ClockStep
  /\ hib_call' = NoCall
  /\ UNCHANGED <<hibernate_state, hibernate_end_time, n_bytes_read_in_interval,
                 n_bytes_written_in_interval, n_seconds_active_in_interval,
                 n_seconds_to_hit_soft_limit, soft_limit_hit_at, n_bytes_at_soft_limit,
                 interval_start_time, interval_end_time, interval_wakeup_time,
                 expected_bandwidth_usage, cfg_start_hour, AccountingMax, AccountingRule,
                 identity_key, wakeup_event_at, shutdown_time, or_state, last_time_noted,
                 hib_process>>

accounting_add_bytes(n_read, n_written, seconds) ==
  /\ HibRunning
  /\ n_bytes_read_in_interval + n_read <= MaxBytes
  /\ n_bytes_written_in_interval + n_written <= MaxBytes
  /\ LET active == n_seconds_active_in_interval + (IF seconds < 10 THEN seconds ELSE 0) IN
     /\ active \in ActiveSecondsRange
     /\ \E h \in {[HibSt EXCEPT !.n_bytes_read_in_interval = @ + n_read,
                                 !.n_bytes_written_in_interval = @ + n_written,
                                 !.n_seconds_active_in_interval = active]} : SetHib(h)
  /\ hib_call' = NoCall
  /\ UNCHANGED now

\* The once-a-second housekeeping of a relay that has accounting enabled.
accounting_run_housekeeping_step ==
  /\ HibRunning
  /\ accounting_is_enabled(HibSt)
  /\ \E h0 \in {HibSt} : \E h \in {accounting_run_housekeeping(h0, now)} : SetHib(h)
  /\ hib_call' = NoCall
  /\ UNCHANGED now

consider_hibernation_step ==
  /\ HibRunning
  /\ \E h0 \in {HibSt} : \E h \in {consider_hibernation(h0, now)} : SetHib(h)
  /\ hib_call' = [op |-> "consider_hibernation", pre |-> HibSt]
  /\ UNCHANGED now

wakeup_event_callback_step ==
  /\ HibRunning
  /\ wakeup_event_at # 0 /\ wakeup_event_at <= now
  /\ \E h0 \in {HibSt} : \E h \in {wakeup_event_callback(h0, now)} : SetHib(h)
  /\ hib_call' = NoCall
  /\ UNCHANGED now

hibernate_begin_shutdown ==
  /\ HibRunning
  /\ \E h0 \in {HibSt} : \E h \in {hibernate_begin(h0, HIBERNATE_STATE_EXITING, now)} : SetHib(h)
  /\ hib_call' = NoCall
  /\ UNCHANGED now

set_options_step(max, rule, hour) ==
  /\ HibRunning
  /\ <<max, rule, hour>> # <<AccountingMax, AccountingRule, cfg_start_hour>>
  /\ hour >= cfg_start_hour   \* AccountingStart is moved to a later hour only
  /\ \E h0 \in {HibSt} : \E h \in {set_options(h0, max, rule, hour, now)} : SetHib(h)
  /\ hib_call' = NoCall
  /\ UNCHANGED now

NextHib ==
  \/ AdvanceClock /\ UNCHANGED <<ptvars, cbtvars, memvars, addrvars>>
  \/ /\ \E b \in ByteCounts, seconds \in SecondCounts : accounting_add_bytes(b[1], b[2], seconds)
     /\ UNCHANGED <<ptvars, cbtvars, memvars, addrvars>>
  \/ accounting_run_housekeeping_step /\ UNCHANGED <<ptvars, cbtvars, memvars, addrvars>>
  \/ consider_hibernation_step /\ UNCHANGED <<ptvars, cbtvars, memvars, addrvars>>
  \/ wakeup_event_callback_step /\ UNCHANGED <<ptvars, cbtvars, memvars, addrvars>>
  \/ hibernate_begin_shutdown /\ UNCHANGED <<ptvars, cbtvars, memvars, addrvars>>
  \/ /\ \E max \in AccountingMaxValues, rule \in AccountingRules, hour \in StartHours :
          set_options_step(max, rule, hour)
     /\ UNCHANGED <<ptvars, cbtvars, memvars, addrvars>>

SpecHib == InitHib /\ [][NextHib]_vars


(***************************************************************************)
(*              Properties of accounting and hibernation                   *)
(***************************************************************************)

\* C6: while accounting is enabled, neither the bytes read nor the bytes
\* written in the current accounting interval exceed AccountingMax.
C6_NoMoreThanAccountingMax ==
  (HibRunning /\ AccountingMax # 0) =>
    /\ n_bytes_read_in_interval <= AccountingMax
    /\ n_bytes_written_in_interval <= AccountingMax

\* consider_hibernation has just returned.
ConsiderReturned == hib_call.op = "consider_hibernation" /\ HibRunning

\* It was called on a live or starting relay with accounting enabled, at a
\* time earlier than interval_wakeup_time.
CalledBeforeWakeup ==
  /\ ConsiderReturned
  /\ hib_call.pre.hibernate_state \in {HIBERNATE_STATE_LIVE, HIBERNATE_STATE_INITIAL}
  /\ hib_call.pre.AccountingMax # 0
  /\ now < hib_call.pre.interval_wakeup_time

\* C7 as stated: with accounting enabled and the time earlier than
\* interval_wakeup_time, consider_hibernation leaves a live or starting relay
\* dormant.
C7_DormantBeforeWakeup ==
  CalledBeforeWakeup => hibernate_state = HIBERNATE_STATE_DORMANT

\* C7, amended: such a call leaves the relay hibernating. It is in
\* low-bandwidth mode until the end of the interval exactly if the soft limit
\* was reached and the hard limit was not; otherwise it is dormant until
\* interval_wakeup_time, with the wakeup event scheduled for that time.
C7_HibernatingBeforeWakeup ==
  CalledBeforeWakeup =>
    IF /\ hibernate_soft_limit_reached(hib_call.pre)
       /\ ~hibernate_hard_limit_reached(hib_call.pre)
      THEN /\ hibernate_state = HIBERNATE_STATE_LOWBANDWIDTH
           /\ hibernate_end_time = interval_end_time
      ELSE /\ hibernate_state = HIBERNATE_STATE_DORMANT
           /\ hibernate_end_time = interval_wakeup_time
           /\ wakeup_event_at = interval_wakeup_time

\* C7 witness: a live relay was sent to sleep until the wakeup time of an
\* interval that began after the start of the run.
C7_Witness ==
  /\ CalledBeforeWakeup
  /\ hib_call.pre.hibernate_state = HIBERNATE_STATE_LIVE
  /\ ~hibernate_soft_limit_reached(hib_call.pre)
  /\ hibernate_state = HIBERNATE_STATE_DORMANT
  /\ hibernate_end_time = interval_wakeup_time
  /\ interval_start_time > StartTime

\* It was called on a dormant relay with accounting enabled, at a time
\* earlier than hibernate_end_time.
CalledWhileAsleep ==
  /\ ConsiderReturned
  /\ hib_call.pre.hibernate_state = HIBERNATE_STATE_DORMANT
  /\ hib_call.pre.AccountingMax # 0
  /\ now < hib_call.pre.hibernate_end_time

\* It was called on a relay in low-bandwidth mode that had reached the hard
\* limit, with accounting enabled, after interval_wakeup_time.
CalledOutOfBandwidth ==
  /\ ConsiderReturned
  /\ hib_call.pre.hibernate_state = HIBERNATE_STATE_LOWBANDWIDTH
  /\ hib_call.pre.AccountingMax # 0
  /\ hibernate_hard_limit_reached(hib_call.pre)
  /\ now >= hib_call.pre.interval_wakeup_time

\* C8: a relay in low-bandwidth mode that has run out of bandwidth goes
\* dormant until the end of the interval; and a call of consider_hibernation
\* on a dormant relay, with accounting enabled and the time earlier than
\* hibernate_end_time, changes nothing, whether or not the interval is over.
C8_AsleepUntilEndTime ==
  /\ CalledOutOfBandwidth =>
       /\ hibernate_state = HIBERNATE_STATE_DORMANT
       /\ hibernate_end_time = hib_call.pre.interval_end_time
  /\ CalledWhileAsleep => HibSt = hib_call.pre

\* C8 witness: the dormant relay was left asleep although its accounting
\* interval had ended.
C8_Witness ==
  /\ CalledWhileAsleep
  /\ now >= hib_call.pre.interval_end_time
  /\ hibernate_state = HIBERNATE_STATE_DORMANT
  /\ hibernate_end_time > now

(***************************************************************************)
(* The circuit build timeout learner, src/core/or/circuitstats.c           *)
(***************************************************************************)

\* Sizes and consensus parameters.  The array of build times and the
\* counts the consensus sets are scaled down; the times are in milliseconds.
CBT_NCIRCUITS_TO_OBSERVE == 2
CBT_BIN_WIDTH == 10
CBT_BUILD_ABANDONED == INT_MAX - 1
CBT_BUILD_TIME_MAX == INT_MAX - 1
INT32_MAX == INT_MAX
DEFAULT_ROUTE_LEN == 3
CIRCUIT_PURPOSE_C_GENERAL == "C_GENERAL"
CIRCUIT_PURPOSE_C_MEASURE_TIMEOUT == "C_MEASURE_TIMEOUT"

\* The runs explored stop counting nonlive closes and doubling the timeout
\* beyond these.
MaxNonliveTimeouts == 1
MaxTimeoutMs == 120000

circuit_build_times_max_timeouts == 1
circuit_build_times_default_num_xm_modes == 1
circuit_build_times_min_circs_to_observe == 2
circuit_build_times_recent_circuit_count == 1
circuit_build_times_min_timeout == 1500
circuit_build_times_initial_timeout == 60000

\* get_options()->CircuitBuildTimeout is not set, so the initial timeout is
\* the consensus parameter.
circuit_build_times_get_initial_timeout == circuit_build_times_initial_timeout

bin_upper_edge(bin) == (bin + 1) * CBT_BIN_WIDTH

CBT_BIN_TO_MS(bin) == bin * CBT_BIN_WIDTH + (CBT_BIN_WIDTH \div 2)

Slots == 0 .. (CBT_NCIRCUITS_TO_OBSERVE - 1)

get_circuit_build_timeout_ms(cbt) == cbt.timeout_ms

get_circuit_build_close_time_ms(cbt) == cbt.close_ms

circuit_build_times_enough_to_compute(cbt) ==
  cbt.total_build_times >= circuit_build_times_min_circs_to_observe

\* memset(cbt, 0), then the liveness array and the initial timeout.  The
\* fields Xm and alpha are intermediate results of the estimation and the
\* num_circ_* and last_circ_at fields are read by logging only; they are
\* not kept.
circuit_build_times_init(disabled) ==
  [circuit_build_times |-> [i \in Slots |-> 0],
   build_times_idx |-> 0,
   total_build_times |-> 0,
   timeout_ms |-> circuit_build_times_get_initial_timeout,
   close_ms |-> circuit_build_times_get_initial_timeout,
   have_computed_timeout |-> 0,
   nonlive_timeouts |-> 0,
   after_firsthop_idx |-> 0,
   num_recent_circs |-> IF disabled THEN 0 ELSE circuit_build_times_recent_circuit_count,
   timeouts_after_firsthop |->
     IF disabled THEN <<>>
     ELSE [i \in 1 .. circuit_build_times_recent_circuit_count |-> 0]]

circuit_build_times_reset(cbt) ==
  [cbt EXCEPT !.circuit_build_times = [i \in Slots |-> 0],
              !.total_build_times = 0,
              !.build_times_idx = 0,
              !.have_computed_timeout = 0]

circuit_build_times_free_timeouts(cbt) ==
  [cbt EXCEPT !.timeouts_after_firsthop = <<>>,
              !.num_recent_circs = 0]

\* realloc of the liveness array: the first MIN(num, old) entries are kept.
circuit_build_times_new_consensus_params(cbt, disabled) ==
  IF ~disabled
    THEN IF circuit_build_times_recent_circuit_count > 0
           THEN IF circuit_build_times_recent_circuit_count # cbt.num_recent_circs
                  THEN [cbt EXCEPT
                         !.timeouts_after_firsthop =
                            [i \in 1 .. circuit_build_times_recent_circuit_count |->
                               IF i <= cbt.num_recent_circs
                                 THEN cbt.timeouts_after_firsthop[i] ELSE 0],
                         !.after_firsthop_idx =
                            IF circuit_build_times_recent_circuit_count < cbt.num_recent_circs
                                /\ circuit_build_times_recent_circuit_count - 1 < @
                              THEN circuit_build_times_recent_circuit_count - 1
                              ELSE @,
                         !.num_recent_circs = circuit_build_times_recent_circuit_count]
                  ELSE cbt
           ELSE circuit_build_times_free_timeouts(cbt)
    ELSE circuit_build_times_free_timeouts(cbt)

circuit_build_times_add_time(cbt, btime) ==
  IF btime <= 0 \/ btime > CBT_BUILD_TIME_MAX
    THEN cbt
    ELSE [cbt EXCEPT
           !.circuit_build_times[cbt.build_times_idx] = btime,
           !.build_times_idx = (@ + 1) % CBT_NCIRCUITS_TO_OBSERVE,
           !.total_build_times =
              IF @ < CBT_NCIRCUITS_TO_OBSERVE THEN @ + 1 ELSE @]

\* The build times that count: neither 0 (uninitialized) nor abandoned.
ValidSlots(cbt) ==
  {i \in Slots : /\ cbt.circuit_build_times[i] # 0
                 /\ cbt.circuit_build_times[i] # CBT_BUILD_ABANDONED}

circuit_build_times_max(cbt) ==
  Only({ CHOOSE m \in vals : \A x \in vals : x <= m :
         vals \in {{cbt.circuit_build_times[i] : i \in ValidSlots(cbt)} \cup {0}} })

\* The histogram as the function from the bins that are not blank to their
\* counts; every other bin below nbins holds 0.
circuit_build_times_create_histogram(cbt) ==
  Only({ [c \in {cbt.circuit_build_times[i] \div CBT_BIN_WIDTH : i \in valid} |->
            Cardinality({i \in valid :
                           cbt.circuit_build_times[i] \div CBT_BIN_WIDTH = c})] :
         valid \in {ValidSlots(cbt)} })

\* The nth mode: the first bin of the largest count among those not yet
\* counted; bin 0 with whatever it holds when every bin is blank.
nth_max_bin(histogram, left) ==
  IF left = {} THEN 0
  ELSE CHOOSE b \in left :
         /\ \A c \in left : histogram[c] <= histogram[b]
         /\ \A c \in left : histogram[c] = histogram[b] => b <= c

RECURSIVE xm_modes(_, _, _, _, _)
xm_modes(histogram, left, n, xm_counts, xm_total) ==
  IF n = 0 THEN <<xm_counts, xm_total>>
  ELSE \* left = {}: the bin chosen holds 0 and adds nothing
       IF left = {} THEN <<xm_counts, xm_total>>
       ELSE Only({ xm_modes(histogram, left \ {b}, n - 1,
                            xm_counts + histogram[b],
                            xm_total + CBT_BIN_TO_MS(b) * histogram[b]) :
                   b \in {nth_max_bin(histogram, left)} })

circuit_build_times_get_xm(cbt) ==
  Only({ Only({ IF r[1] = 0 THEN 0 ELSE r[2] \div r[1] :
                r \in {xm_modes(histogram, DOMAIN histogram,
                                circuit_build_times_default_num_xm_modes, 0, 0)} }) :
         histogram \in {circuit_build_times_create_histogram(cbt)} })

\* circuit_build_times_update_alpha and circuit_build_times_calculate_timeout
\* compute Xm / (1-quantile)^(1/alpha) in floating point.  The result lies
\* between Xm and INT32_MAX; it is taken to be any of three such values.
circuit_build_times_calculate_timeout(Xm) == {Xm, 2 * Xm, INT32_MAX}

\* The set of structures the worker can leave; empty when it returns 0.
circuit_build_times_set_timeout_worker(cbt) ==
  IF ~circuit_build_times_enough_to_compute(cbt) THEN {}
  ELSE Only({
         IF Xm = 0 THEN {}
         ELSE { [cbt EXCEPT
                  !.timeout_ms = IF t > max_time THEN max_time ELSE t,
                  !.close_ms = Max2(IF max_time < INT32_MAX \div 2 /\ c > 2 * max_time
                                      THEN 2 * max_time ELSE c,
                                    circuit_build_times_initial_timeout),
                  !.have_computed_timeout = 1] :
                <<t, c>> \in {q \in circuit_build_times_calculate_timeout(Xm)
                                 \X circuit_build_times_calculate_timeout(Xm) :
                                q[1] <= q[2]},
                max_time \in {circuit_build_times_max(cbt)} } :
         Xm \in {circuit_build_times_get_xm(cbt)} })

circuit_build_times_set_timeout(cbt, disabled) ==
  IF disabled THEN {cbt}
  ELSE Only({
         IF worked = {} THEN {cbt}
         ELSE { IF c.timeout_ms < circuit_build_times_min_timeout
                  THEN [c EXCEPT
                         !.timeout_ms = circuit_build_times_min_timeout,
                         !.close_ms = IF @ < circuit_build_times_min_timeout
                                        THEN circuit_build_times_initial_timeout
                                        ELSE @]
                  ELSE c :
                c \in worked } :
         worked \in {circuit_build_times_set_timeout_worker(cbt)} })

\* network_last_live = now; the comparison of network_last_live with the
\* start time of a circuit is an argument of circuit_build_times_network_close.
circuit_build_times_network_is_live(cbt) ==
  [cbt EXCEPT !.nonlive_timeouts = 0]

circuit_build_times_network_circ_success(cbt) ==
  IF cbt.num_recent_circs > 0
    THEN [cbt EXCEPT
           !.timeouts_after_firsthop[cbt.after_firsthop_idx + 1] = 0,
           !.after_firsthop_idx = (@ + 1) % cbt.num_recent_circs]
    ELSE cbt

circuit_build_times_network_timeout(cbt, did_onehop) ==
  IF cbt.num_recent_circs > 0 /\ did_onehop
    THEN [cbt EXCEPT
           !.timeouts_after_firsthop[cbt.after_firsthop_idx + 1] = 1,
           !.after_firsthop_idx = (@ + 1) % cbt.num_recent_circs]
    ELSE cbt

circuit_build_times_network_close(cbt, did_onehop, started_after_last_live) ==
  IF started_after_last_live
    THEN [cbt EXCEPT !.nonlive_timeouts = @ + 1]
    ELSE cbt

network_is_always_live(cbt) == TRUE

circuit_build_times_network_check_live(cbt) == cbt.nonlive_timeouts = 0

RECURSIVE SumSeq(_)
SumSeq(s) == IF s = <<>> THEN 0 ELSE Head(s) + SumSeq(Tail(s))

MAX_TIMEOUT == INT32_MAX \div 2

network_check_changed_keeping_timeout(cbt) ==
  IF SumSeq(cbt.timeouts_after_firsthop) < circuit_build_times_max_timeouts
    THEN cbt
    ELSE circuit_build_times_reset(cbt)

circuit_build_times_network_check_changed(cbt) ==
  IF SumSeq(cbt.timeouts_after_firsthop) < circuit_build_times_max_timeouts
    THEN cbt
    ELSE Only({
           [c EXCEPT
             !.timeouts_after_firsthop = [i \in DOMAIN @ |-> 0],
             !.after_firsthop_idx = 0,
             !.timeout_ms =
                IF @ >= circuit_build_times_get_initial_timeout
                  THEN IF @ > MAX_TIMEOUT \/ c.close_ms > MAX_TIMEOUT THEN @ ELSE @ * 2
                  ELSE circuit_build_times_get_initial_timeout,
             !.close_ms =
                IF c.timeout_ms >= circuit_build_times_get_initial_timeout
                  THEN IF c.timeout_ms > MAX_TIMEOUT \/ @ > MAX_TIMEOUT THEN @ ELSE @ * 2
                  ELSE circuit_build_times_get_initial_timeout] :
           c \in {circuit_build_times_reset(cbt)} })

circuit_build_times_count_close(cbt, disabled, did_onehop, started_after_last_live) ==
  IF disabled
    THEN [cbt EXCEPT !.close_ms = circuit_build_times_get_initial_timeout,
                     !.timeout_ms = circuit_build_times_get_initial_timeout]
    ELSE Only({
           IF ~circuit_build_times_network_check_live(c) THEN c
           ELSE circuit_build_times_add_time(c, CBT_BUILD_ABANDONED) :
           c \in {circuit_build_times_network_close(cbt, did_onehop,
                                                    started_after_last_live)} })

circuit_build_times_count_timeout(cbt, disabled, did_onehop) ==
  IF disabled
    THEN [cbt EXCEPT !.close_ms = circuit_build_times_get_initial_timeout,
                     !.timeout_ms = circuit_build_times_get_initial_timeout]
    ELSE Only({ circuit_build_times_network_check_changed(c) :
                c \in {circuit_build_times_network_timeout(cbt, did_onehop)} })

RECURSIVE SortedSeq(_)
SortedSeq(S) ==
  IF S = {} THEN <<>>
  ELSE Only({ <<m>> \o SortedSeq(S \ {m}) :
              m \in {CHOOSE x \in S : \A y \in S : x <= y} })

\* The or_state_t fields written: a CircuitBuildTimeBin line "ms count" for
\* every bin that is not blank, in the order of the bins.
circuit_build_times_update_state(cbt) ==
  Only({ Only({
           [BuildtimeHistogram |->
              [k \in DOMAIN bins |-> <<CBT_BIN_TO_MS(bins[k]), histogram[bins[k]]>>],
            TotalBuildTimes |-> cbt.total_build_times,
            CircuitBuildAbandonedCount |->
              Cardinality({i \in Slots : cbt.circuit_build_times[i] = CBT_BUILD_ABANDONED})] :
           bins \in {SortedSeq(DOMAIN histogram)} }) :
         histogram \in {circuit_build_times_create_histogram(cbt)} })

Repeat(x, n) == [k \in 1 .. n |-> x]

Min2(a, b) == IF a <= b THEN a ELSE b

\* The loop over the lines of the state: <<loaded_times, err>>.
RECURSIVE load_lines(_, _, _)
load_lines(lines, loaded_times, state) ==
  IF lines = <<>> THEN <<loaded_times, 0>>
  ELSE Only({
         IF ms < 0 \/ ms > CBT_BUILD_TIME_MAX \/ count < 0
           THEN <<loaded_times, 1>>
         ELSE IF Len(loaded_times) + count + state.CircuitBuildAbandonedCount
                   > state.TotalBuildTimes
           THEN <<loaded_times, 0>>
         ELSE load_lines(Tail(lines), loaded_times \o Repeat(ms, count), state) :
         ms \in {Head(lines)[1]}, count \in {Head(lines)[2]} })

RECURSIVE add_times(_, _)
add_times(cbt, times) ==
  IF times = <<>> THEN cbt
  ELSE Only({ add_times(c, Tail(times)) :
              c \in {circuit_build_times_add_time(cbt, Head(times))} })

\* Fisher-Yates with crypto_rand_int: any order of the times can come out.
circuit_build_times_shuffle_and_store_array(cbt, raw_times) ==
  { add_times(cbt, [k \in 1 .. Min2(Len(raw_times), CBT_NCIRCUITS_TO_OBSERVE) |->
                      raw_times[p[k]]]) :
    p \in Permutations(DOMAIN raw_times) }

\* The length of the prefix of build times that are not 0.
tot_values(cbt) ==
  Cardinality({i \in Slots : \A j \in 0 .. i : cbt.circuit_build_times[j] # 0})

circuit_build_times_parse_state(state, disabled) ==
  IF disabled THEN {circuit_build_times_init(disabled)}
  ELSE Only({
         IF Len(loaded_times) # state.TotalBuildTimes
           THEN {circuit_build_times_reset(cbt)}
           ELSE UNION {
                  IF stored.total_build_times # tot_values(stored)
                       \/ stored.total_build_times > CBT_NCIRCUITS_TO_OBSERVE
                    THEN {circuit_build_times_reset(stored)}
                    ELSE circuit_build_times_set_timeout(stored, disabled) :
                  stored \in circuit_build_times_shuffle_and_store_array(cbt, loaded_times) } :
         loaded_times \in
           {load_lines(state.BuildtimeHistogram, <<>>, state)[1]
              \o Repeat(CBT_BUILD_ABANDONED, state.CircuitBuildAbandonedCount)},
         cbt \in {circuit_build_times_init(disabled)} })

\* An origin circuit: its purpose, the hops of its cpath that are open,
\* relaxed_timeout and the last circuit_event_status sent for it.
NoCirc == [purpose |-> "none"]

\* One origin circuit at a time is followed through its build; the others
\* show in circuit_any_opened_circuits_cached().
Circs == {"circ"}

\* <<circ_times, circ>> after the call.
circuit_build_times_mark_circ_as_measurement_only(cbt, circ, disabled) ==
  <<IF ~circ.relaxed_timeout
      THEN circuit_build_times_count_timeout(cbt, disabled, circ.hops >= 1)
      ELSE cbt,
    [circ EXCEPT !.event = "FAILED TIMEOUT",
                 !.purpose = CIRCUIT_PURPOSE_C_MEASURE_TIMEOUT]>>

\* The set of <<circ_times, circ>> the call can leave.
circuit_build_times_handle_completed_hop(cbt, circ, disabled, want_to_count, timediff, any_opened) ==
  IF disabled THEN {<<cbt, circ>>}
  ELSE IF ~want_to_count THEN {<<cbt, circ>>}
  ELSE Only({
    IF m[2].hops = DEFAULT_ROUTE_LEN
      THEN IF timediff < 0 \/ timediff > 2 * get_circuit_build_close_time_ms(m[1]) + 1000
             THEN {m}
             ELSE { <<IF m[2].purpose # CIRCUIT_PURPOSE_C_MEASURE_TIMEOUT
                        THEN circuit_build_times_network_circ_success(a)
                        ELSE a,
                      m[2]>> :
                    a \in IF circuit_build_times_network_check_live(m[1])
                            THEN UNION { circuit_build_times_set_timeout(added, disabled) :
                                         added \in {circuit_build_times_add_time(m[1], timediff)} }
                            ELSE {m[1]} }
      ELSE {m} :
    m \in { IF /\ timediff > get_circuit_build_timeout_ms(cbt)
               /\ any_opened
               /\ circ.purpose # CIRCUIT_PURPOSE_C_MEASURE_TIMEOUT
              THEN circuit_build_times_mark_circ_as_measurement_only(cbt, circ, disabled)
              ELSE <<cbt, circ>> } })

\* What tv_mdiff(&circ->base_.timestamp_began, &end) can come to: a wall
\* clock set back, a quick build, a build slower than the initial timeout,
\* and one slower than twice the initial close time and a second.
TimeDiffs == {-1, 0, 800, 61005, 250000}

NoBuildTimes ==
  [BuildtimeHistogram |-> <<>>, TotalBuildTimes |-> 0, CircuitBuildAbandonedCount |-> 0]

InitCbt ==
  /\ PtStart
  /\ HibIdle
  /\ MemIdle
  /\ AddrIdle
  /\ cbt_disabled \in BOOLEAN
  /\ circ_times = circuit_build_times_init(cbt_disabled)
  /\ cbt_state = NoBuildTimes
  /\ circuits = [c \in Circs |-> NoCirc]
  /\ cbt_call = NoCall

\* A circuit is launched.
origin_circuit_init(c) ==
  /\ circuits[c] = NoCirc
  /\ circuits' = [circuits EXCEPT ![c] =
                    [purpose |-> CIRCUIT_PURPOSE_C_GENERAL, hops |-> 0,
                     relaxed_timeout |-> FALSE, event |-> "LAUNCHED"]]
  /\ cbt_call' = NoCall
  /\ UNCHANGED <<circ_times, cbt_state, cbt_disabled>>

\* A hop of circuit c opens and the handler is called for it;
\* want_to_count is what circuit_timeout_want_to_count_circ says of it.
handle_completed_hop_step(c, want_to_count, timediff, any_opened) ==
  /\ circuits[c] # NoCirc
  /\ circuits[c].hops < DEFAULT_ROUTE_LEN + 1
  /\ \E r \in circuit_build_times_handle_completed_hop(
                 circ_times, [circuits[c] EXCEPT !.hops = @ + 1],
                 cbt_disabled, want_to_count, timediff, any_opened) :
       /\ r[1].timeout_ms <= MaxTimeoutMs
       /\ circ_times' = r[1]
       /\ circuits' = [circuits EXCEPT ![c] = r[2]]
  /\ cbt_call' = [op |-> "handle_completed_hop", circ |-> c,
                  want_to_count |-> want_to_count, timediff |-> timediff,
                  any_opened |-> any_opened]
  /\ UNCHANGED <<cbt_state, cbt_disabled>>

\* circuit_expire_building finds that circuit c has been building for longer
\* than the timeout and keeps it for measurement.
mark_circ_as_measurement_only_step(c) ==
  /\ circuits[c] # NoCirc
  /\ circuits[c].hops < DEFAULT_ROUTE_LEN
  /\ circuits[c].purpose # CIRCUIT_PURPOSE_C_MEASURE_TIMEOUT
  /\ \E r \in {circuit_build_times_mark_circ_as_measurement_only(
                 circ_times, circuits[c], cbt_disabled)} :
       /\ r[1].timeout_ms <= MaxTimeoutMs
       /\ circ_times' = r[1]
       /\ circuits' = [circuits EXCEPT ![c] = r[2]]
  /\ cbt_call' = NoCall
  /\ UNCHANGED <<cbt_state, cbt_disabled>>

\* circuit_expire_building relaxes the timeout of circuit c and counts the
\* timeout itself.
count_timeout_step(c) ==
  /\ circuits[c] # NoCirc
  /\ circuits[c].hops < DEFAULT_ROUTE_LEN
  /\ ~circuits[c].relaxed_timeout
  /\ \E cbt \in {circuit_build_times_count_timeout(circ_times, cbt_disabled,
                                                      circuits[c].hops >= 1)} :
       /\ cbt.timeout_ms <= MaxTimeoutMs
       /\ circ_times' = cbt
  /\ circuits' = [circuits EXCEPT ![c].relaxed_timeout = TRUE]
  /\ cbt_call' = NoCall
  /\ UNCHANGED <<cbt_state, cbt_disabled>>

\* circuit_expire_building gives up on a measurement circuit.
count_close_step(c, started_after_last_live) ==
  /\ circuits[c] # NoCirc
  /\ circuits[c].hops < DEFAULT_ROUTE_LEN
  /\ circuits[c].purpose = CIRCUIT_PURPOSE_C_MEASURE_TIMEOUT
  /\ started_after_last_live => circ_times.nonlive_timeouts < MaxNonliveTimeouts
  /\ circ_times' = circuit_build_times_count_close(circ_times, cbt_disabled,
                                                   circuits[c].hops >= 1,
                                                   started_after_last_live)
  /\ circuits' = [circuits EXCEPT ![c] = NoCirc]
  /\ cbt_call' = NoCall
  /\ UNCHANGED <<cbt_state, cbt_disabled>>

\* A circuit goes away for a reason the learner takes no note of.
circuit_about_to_free(c) ==
  /\ circuits[c] # NoCirc
  /\ circuits' = [circuits EXCEPT ![c] = NoCirc]
  /\ cbt_call' = NoCall
  /\ UNCHANGED <<circ_times, cbt_state, cbt_disabled>>

network_is_live_step ==
  /\ circ_times' = circuit_build_times_network_is_live(circ_times)
  /\ cbt_call' = NoCall
  /\ UNCHANGED <<cbt_state, cbt_disabled, circuits>>

\* A consensus or an option change arrives that turns learning on or off.
new_consensus_params_step(disabled) ==
  /\ cbt_disabled' = disabled
  /\ circ_times' = circuit_build_times_new_consensus_params(circ_times, disabled)
  /\ cbt_call' = NoCall
  /\ UNCHANGED <<cbt_state, circuits>>

update_state_step ==
  /\ cbt_state' = circuit_build_times_update_state(circ_times)
  /\ cbt_call' = [op |-> "update_state"]
  /\ UNCHANGED <<circ_times, cbt_disabled, circuits>>

\* The process starts again and loads the state.
parse_state_step ==
  /\ circ_times' \in circuit_build_times_parse_state(cbt_state, cbt_disabled)
  /\ circuits' = [c \in Circs |-> NoCirc]
  /\ cbt_call' = [op |-> "parse_state"]
  /\ UNCHANGED <<cbt_state, cbt_disabled>>

\* The learner at work: circuits are built, time out and are closed, the
\* network comes and goes, learning is turned on and off.
NextCbt ==
  \/ /\ \E c \in Circs : origin_circuit_init(c)
     /\ UNCHANGED <<ptvars, hibvars, memvars, addrvars>>
  \/ /\ \E c \in Circs, want_to_count \in BOOLEAN, timediff \in TimeDiffs,
           any_opened \in BOOLEAN :
          handle_completed_hop_step(c, want_to_count, timediff, any_opened)
     /\ UNCHANGED <<ptvars, hibvars, memvars, addrvars>>
  \/ /\ \E c \in Circs : mark_circ_as_measurement_only_step(c)
     /\ UNCHANGED <<ptvars, hibvars, memvars, addrvars>>
  \/ /\ \E c \in Circs : count_timeout_step(c)
     /\ UNCHANGED <<ptvars, hibvars, memvars, addrvars>>
  \/ /\ \E c \in Circs, started_after_last_live \in BOOLEAN :
          count_close_step(c, started_after_last_live)
     /\ UNCHANGED <<ptvars, hibvars, memvars, addrvars>>
  \/ /\ \E c \in Circs : circuit_about_to_free(c)
     /\ UNCHANGED <<ptvars, hibvars, memvars, addrvars>>
  \/ network_is_live_step /\ UNCHANGED <<ptvars, hibvars, memvars, addrvars>>
  \/ /\ \E disabled \in BOOLEAN : new_consensus_params_step(disabled)
     /\ UNCHANGED <<ptvars, hibvars, memvars, addrvars>>

SpecCbt == InitCbt /\ [][NextCbt]_vars

\* The build times that reach the state file in the runs of SpecCbtState.
StoredTimeDiffs == {800, 61005}

\* The state file: build times of circuits that count are recorded while the
\* network is live, circuits are abandoned, learning is turned on and off,
\* the state is written and the process starts again from it.
NextCbtState ==
  \/ /\ \E c \in Circs : origin_circuit_init(c)
     /\ UNCHANGED <<ptvars, hibvars, memvars, addrvars>>
  \/ /\ \E c \in Circs, timediff \in StoredTimeDiffs :
          handle_completed_hop_step(c, TRUE, timediff, FALSE)
     /\ UNCHANGED <<ptvars, hibvars, memvars, addrvars>>
  \/ /\ \E c \in Circs : mark_circ_as_measurement_only_step(c)
     /\ UNCHANGED <<ptvars, hibvars, memvars, addrvars>>
  \/ /\ \E c \in Circs : count_close_step(c, FALSE)
     /\ UNCHANGED <<ptvars, hibvars, memvars, addrvars>>
  \/ /\ \E disabled \in BOOLEAN : new_consensus_params_step(disabled)
     /\ UNCHANGED <<ptvars, hibvars, memvars, addrvars>>
  \/ update_state_step /\ UNCHANGED <<ptvars, hibvars, memvars, addrvars>>
  \/ parse_state_step /\ UNCHANGED <<ptvars, hibvars, memvars, addrvars>>

SpecCbtState == InitCbt /\ [][NextCbtState]_vars

(***************************************************************************)
(* Claims about the circuit build timeout learner                          *)
(***************************************************************************)

HopStep == cbt_call'.op = "handle_completed_hop"

\* The call stored timediff as the newest build time.
Added(timediff) ==
  /\ circ_times'.circuit_build_times =
       [circ_times.circuit_build_times EXCEPT ![circ_times.build_times_idx] = timediff]
  /\ circ_times'.build_times_idx =
       (circ_times.build_times_idx + 1) % CBT_NCIRCUITS_TO_OBSERVE

TimedOut(circ) ==
  /\ circ.purpose = CIRCUIT_PURPOSE_C_MEASURE_TIMEOUT
  /\ circ.event = "FAILED TIMEOUT"

\* C1 (as stated): a circuit that has been timed out with reason TIMEOUT and
\* then completes its third hop has its elapsed time added to the build times.
\* Read with learning enabled, for a circuit the timeout applies to and an
\* elapsed time beyond the timeout.
C1_TimedOutCircuitIsSampled ==
  [][(/\ HopStep
      /\ ~cbt_disabled
      /\ cbt_call'.want_to_count
      /\ cbt_call'.timediff > circ_times.timeout_ms
      /\ TimedOut(circuits[cbt_call'.circ])
      /\ circuits'[cbt_call'.circ].hops = DEFAULT_ROUTE_LEN)
       => Added(cbt_call'.timediff)]_vars

\* C1 (amended): while learning is enabled and the circuit is one the timeout
\* applies to, a hop completed later than the timeout, with other circuits
\* open, makes the circuit a measurement circuit and reports it FAILED with
\* reason TIMEOUT without closing it; and the elapsed time of a timed-out
\* circuit that completes its third hop is added exactly when learning is
\* enabled, the circuit counts, the time is positive and at most twice the
\* close time plus a second, and the network is live.
C1_TimedOutCircuitIsSampledWhenLive ==
  [][HopStep =>
       /\ (/\ ~cbt_disabled
           /\ cbt_call'.want_to_count
           /\ cbt_call'.timediff > circ_times.timeout_ms
           /\ cbt_call'.any_opened
           /\ circuits[cbt_call'.circ].purpose # CIRCUIT_PURPOSE_C_MEASURE_TIMEOUT)
            => /\ TimedOut(circuits'[cbt_call'.circ])
               /\ circuits'[cbt_call'.circ].hops = circuits[cbt_call'.circ].hops + 1
       /\ (/\ TimedOut(circuits[cbt_call'.circ])
           /\ circuits'[cbt_call'.circ].hops = DEFAULT_ROUTE_LEN)
            => (Added(cbt_call'.timediff) <=>
                  /\ ~cbt_disabled
                  /\ cbt_call'.want_to_count
                  /\ cbt_call'.timediff > 0
                  /\ cbt_call'.timediff <= 2 * circ_times.close_ms + 1000
                  /\ circ_times.nonlive_timeouts = 0)]_vars

\* A circuit timed out at the seed timeout has completed its third hop and
\* its 61005 ms are the one build time recorded.
C1_Witness ==
  /\ cbt_call.op = "handle_completed_hop"
  /\ cbt_call.timediff = 61005
  /\ \E c \in Circs :
       /\ circuits[c] # NoCirc
       /\ TimedOut(circuits[c])
       /\ circuits[c].hops = DEFAULT_ROUTE_LEN
  /\ circ_times.total_build_times = 1
  /\ circ_times.circuit_build_times[0] = 61005
  /\ circ_times.timeout_ms = circuit_build_times_get_initial_timeout

RECURSIVE SumCounts(_, _)
SumCounts(lines, bin) ==
  IF lines = <<>> THEN 0
  ELSE (IF Head(lines)[1] \div CBT_BIN_WIDTH = bin THEN Head(lines)[2] ELSE 0)
       + SumCounts(Tail(lines), bin)

AbandonedCount(cbt) ==
  Cardinality({i \in Slots : cbt.circuit_build_times[i] = CBT_BUILD_ABANDONED})

BinCount(cbt, bin) ==
  Cardinality({i \in ValidSlots(cbt) : cbt.circuit_build_times[i] \div CBT_BIN_WIDTH = bin})

\* The state and the structure hold the same sample count, the same
\* abandoned count and the same count in every bin.
SameDistribution(state, cbt) ==
  /\ state.TotalBuildTimes = cbt.total_build_times
  /\ state.CircuitBuildAbandonedCount = AbandonedCount(cbt)
  /\ \A bin \in {cbt.circuit_build_times[i] \div CBT_BIN_WIDTH : i \in ValidSlots(cbt)}
                  \cup {state.BuildtimeHistogram[k][1] \div CBT_BIN_WIDTH :
                          k \in DOMAIN state.BuildtimeHistogram} :
       SumCounts(state.BuildtimeHistogram, bin) = BinCount(cbt, bin)

Flushed == cbt_call'.op = "update_state" => SameDistribution(cbt_state', circ_times)

\* C2 (as stated): what is flushed holds the counts of the distribution, and
\* what is loaded after a restart holds the counts of what was flushed.
C2_DistributionSurvivesRestart ==
  [][/\ Flushed
     /\ cbt_call'.op = "parse_state" => SameDistribution(cbt_state, circ_times')]_vars

\* C2 (amended): the same, provided learning is not disabled when the state
\* is loaded; the timeout itself is not stored but computed again from the
\* loaded build times when there are enough of them, and is the initial
\* timeout otherwise.
C2_DistributionSurvivesRestartWhenEnabled ==
  [][/\ Flushed
     /\ (cbt_call'.op = "parse_state" /\ ~cbt_disabled) =>
          /\ SameDistribution(cbt_state, circ_times')
          /\ IF /\ circuit_build_times_enough_to_compute(circ_times')
                /\ circuit_build_times_get_xm(circ_times') > 0
               THEN circ_times'.have_computed_timeout = 1
               ELSE circ_times'.timeout_ms = circuit_build_times_get_initial_timeout
     /\ (cbt_call'.op = "parse_state" /\ cbt_disabled) =>
          circ_times' = circuit_build_times_init(TRUE)]_vars

\* A build time of 800 ms and an abandoned circuit came back from the state:
\* the time as the midpoint of its bin.
C2_Witness ==
  /\ cbt_call.op = "parse_state"
  /\ ~cbt_disabled
  /\ cbt_state.TotalBuildTimes = 2
  /\ circ_times.total_build_times = 2
  /\ \E i, j \in Slots :
       /\ circ_times.circuit_build_times[i] = 805
       /\ circ_times.circuit_build_times[j] = CBT_BUILD_ABANDONED

MEMAREA_ALIGN == 8
MEMAREA_ALIGN_MASK == MEMAREA_ALIGN - 1
SENTINEL_LEN == 4
CHUNK_HEADER_SIZE == 24
CHUNK_SIZE == 4096

\* Bounds: the allocations between two clears, and the blocks malloc has to
\* hand out (a block freed by a clear may be handed out again).
MaxAllocs == 2
MaxChunkIds == 3

ChunkIds == 1..MaxChunkIds

\* The sizes asked of memarea_alloc: zero, small ones, half a chunk, and
\* sizes around the memory of a chunk of CHUNK_SIZE.
AllocSizes == { 0, 1, 2036, 4071, 4072, 4073, 5000 }

\* A pointer is a chunk and an offset from the chunk's U_MEM; these are the
\* offsets memarea_owns_ptr is asked about.
PtrOffsets == { 0, 1, 8, 4072, 4073, 4079 }

\* realign_pointer of U_MEM + x, as an offset: U_MEM is aligned.
realign_pointer(x) ==
  ((x + MEMAREA_ALIGN_MASK) \div MEMAREA_ALIGN) * MEMAREA_ALIGN

\* A faulty variant of alloc_chunk that makes every chunk of CHUNK_SIZE;
\* C14 fails under it.
alloc_chunk_of_chunk_size(sz, id) ==
  [id |-> id, mem_size |-> CHUNK_SIZE - CHUNK_HEADER_SIZE, next_mem |-> 0]

\* alloc_chunk: id is the block tor_malloc gives; next_mem is kept as an
\* offset from U_MEM.
alloc_chunk(sz, id) ==
  LET chunk_size == (IF sz < CHUNK_SIZE THEN CHUNK_SIZE ELSE sz) + SENTINEL_LEN IN
  [id |-> id,
   mem_size |-> chunk_size - CHUNK_HEADER_SIZE - SENTINEL_LEN,
   next_mem |-> 0]

\* The list of chunks of a new area, from area->first.
memarea_new(id) == << alloc_chunk(CHUNK_SIZE, id) >>

\* A faulty variant of memarea_clear that keeps what the first chunk holds;
\* C13 fails under it.
clear_keeping_first(chunks) == << chunks[1] >>

memarea_clear(chunks) == << [chunks[1] EXCEPT !.next_mem = 0] >>

memarea_owns_ptr(chunks, p) ==
  \E i \in 1..Len(chunks) :
    p.chunk = chunks[i].id /\ p.off >= 0 /\ p.off < chunks[i].next_mem

\* Whether memarea_alloc of sz bytes calls alloc_chunk.
needs_chunk(chunks, sz) ==
  (IF sz = 0 THEN 1 ELSE sz) > chunks[1].mem_size - chunks[1].next_mem

\* memarea_alloc: asserted is whether a tor_assert fails; else chunks is the
\* list afterwards, result the pointer returned and sz the size served.
\* id is the block tor_malloc gives if alloc_chunk is called.
memarea_alloc(chunks, sz_asked, id) ==
  LET chunk == chunks[1]
      sz == IF sz_asked = 0 THEN 1 ELSE sz_asked
      big == sz + CHUNK_HEADER_SIZE >= CHUNK_SIZE
      new_chunk == IF big THEN alloc_chunk(sz + CHUNK_HEADER_SIZE, id)
                   ELSE alloc_chunk(CHUNK_SIZE, id)
      fresh == needs_chunk(chunks, sz_asked)
      target == IF fresh THEN new_chunk ELSE chunk
      served == [target EXCEPT !.next_mem = realign_pointer(@ + sz)] IN
  IF chunk.next_mem > chunk.mem_size \/ (fresh /\ target.mem_size < sz)
    THEN [asserted |-> TRUE, chunks |-> chunks, result |-> NULL, sz |-> sz]
  ELSE [asserted |-> FALSE,
        chunks |-> IF ~fresh THEN << served >> \o Tail(chunks)
                   ELSE IF big THEN << chunk, served >> \o Tail(chunks)
                   ELSE << served >> \o chunks,
        result |-> [chunk |-> target.id, off |-> target.next_mem],
        sz |-> sz]

\* The blocks of the chunks of the list.
ChunkIdsOf(chunks) == { chunks[i].id : i \in 1..Len(chunks) }

\* ---- the handlers ----

memarea_alloc_step(sz) ==
  /\ mem_call.op # "abort"
  /\ Len(returned) < MaxAllocs
  /\ \E id \in (IF needs_chunk(area, sz) THEN ChunkIds \ ChunkIdsOf(area) ELSE {0}) :
       \E r \in { memarea_alloc(area, sz, id) } :
         IF r.asserted
           THEN /\ mem_call' = [op |-> "abort"]
                /\ UNCHANGED <<area, returned>>
           ELSE /\ area' = r.chunks
                /\ returned' = Append(returned, [chunk |-> r.result.chunk,
                                                  off |-> r.result.off, sz |-> r.sz])
                /\ mem_call' = [op |-> "alloc", sz |-> sz, result |-> r.result]

memarea_clear_step ==
  /\ mem_call.op # "abort"
  /\ area' = memarea_clear(area)
  /\ returned' = <<>>
  /\ mem_call' = [op |-> "clear"]

memarea_owns_ptr_step(p) ==
  /\ mem_call.op # "abort"
  /\ mem_call' = [op |-> "owns_ptr", p |-> p, result |-> memarea_owns_ptr(area, p)]
  /\ UNCHANGED <<area, returned>>

\* memarea_new has run.
InitMem ==
  /\ PtStart /\ HibIdle /\ CbtIdle /\ AddrIdle
  /\ \E id \in ChunkIds : area = memarea_new(id)
  /\ returned = <<>>
  /\ mem_call = [op |-> "new"]

NextMem ==
  \/ /\ \E sz \in AllocSizes : memarea_alloc_step(sz)
     /\ UNCHANGED <<ptvars, hibvars, cbtvars, addrvars>>
  \/ /\ memarea_clear_step
     /\ UNCHANGED <<ptvars, hibvars, cbtvars, addrvars>>
  \/ /\ \E id \in ChunkIds, off \in PtrOffsets :
          memarea_owns_ptr_step([chunk |-> id, off |-> off])
     /\ UNCHANGED <<ptvars, hibvars, cbtvars, addrvars>>

SpecMem == InitMem /\ [][NextMem]_vars

(***************************************************************************)
(*                   Properties of the memory arena                        *)
(***************************************************************************)

\* The step is a run of memarea_alloc that returned.
AllocStep == mem_call'.op = "alloc" /\ returned' # returned

\* The size memarea_alloc serves for the size asked in the step.
ServedSize == IF mem_call'.sz = 0 THEN 1 ELSE mem_call'.sz

C14_RegionsInsideAndApart ==
  /\ mem_call.op # "abort"
  /\ \A n \in 1..Len(returned) :
       \E i \in 1..Len(area) :
         /\ area[i].id = returned[n].chunk
         /\ returned[n].off >= 0
         /\ returned[n].off + returned[n].sz <= area[i].mem_size
  /\ \A n, m \in 1..Len(returned) :
       n # m => \/ returned[n].chunk # returned[m].chunk
                \/ returned[n].off + returned[n].sz <= returned[m].off
                \/ returned[m].off + returned[m].sz <= returned[n].off
  /\ mem_call.op = "alloc" =>
       /\ returned # <<>>
       /\ returned[Len(returned)].chunk = mem_call.result.chunk
       /\ returned[Len(returned)].off = mem_call.result.off
       /\ returned[Len(returned)].sz >= mem_call.sz

\* C14 witness: a small region from the first chunk and an oversized one, in
\* a chunk of its own put second, have been returned since the last clear.
C14_Witness ==
  /\ mem_call.op = "alloc"
  /\ Len(returned) = 2
  /\ Len(area) = 2
  /\ returned[1].sz = 1 /\ returned[1].chunk = area[1].id
  /\ returned[2].sz = 5000 /\ returned[2].chunk = area[2].id

\* C15: memarea_owns_ptr answers true exactly for a pointer into a region
\* that memarea_alloc has returned since the last clear.
C15_OwnsExactlyReturned ==
  mem_call.op = "owns_ptr" =>
    (mem_call.result <=>
       \E n \in 1..Len(returned) :
         /\ returned[n].chunk = mem_call.p.chunk
         /\ returned[n].off <= mem_call.p.off
         /\ mem_call.p.off < returned[n].off + returned[n].sz)

\* --------------------------------------------------------------------------
\* Address comparison (src/unnamed/part_005, tor_addr_compare_masked).
\*
\* A tor_addr_t is [family, addr, at]: addr holds the bytes of the address in
\* network order (4 for AF_INET, 16 for AF_INET6, none otherwise) and at is
\* where the object lives, which the AF_UNIX comparison looks at.
\* --------------------------------------------------------------------------

AF_UNSPEC == 0

AF_UNIX == 1

AF_INET == 2

AF_INET6 == 10

CMP_EXACT == "CMP_EXACT"

CMP_SEMANTIC == "CMP_SEMANTIC"

\* The addresses compared: three IPv4 addresses, the IPv4-mapped IPv6 forms
\* of two of them, two other IPv6 addresses, an unspecified address and
\* two AF_UNIX addresses.
Addrs ==
  { [family |-> AF_INET,   addr |-> <<1, 2, 3, 4>>, at |-> 1],
    [family |-> AF_INET,   addr |-> <<1, 2, 3, 5>>, at |-> 2],
    [family |-> AF_INET,   addr |-> <<3, 4, 5, 6>>, at |-> 3],
    [family |-> AF_INET6,  addr |-> <<0,0,0,0, 0,0,0,0, 0,0,255,255, 1,2,3,4>>, at |-> 4],
    [family |-> AF_INET6,  addr |-> <<0,0,0,0, 0,0,0,0, 0,0,255,255, 3,4,5,6>>, at |-> 5],
    [family |-> AF_INET6,  addr |-> <<0,0,0,0, 0,0,0,0, 0,0,0,0, 0,0,0,1>>, at |-> 6],
    [family |-> AF_INET6,  addr |-> <<32,1,13,184, 0,0,0,0, 0,0,0,0, 0,0,0,1>>, at |-> 7],
    [family |-> AF_UNSPEC, addr |-> <<>>, at |-> 9],
    [family |-> AF_UNIX,   addr |-> <<>>, at |-> 10],
    [family |-> AF_UNIX,   addr |-> <<>>, at |-> 11] }

\* The masks asked for (maskbits_t is a uint8_t).
MaskBits == { 0, 4, 32, 96, 100, 128, 200 }

\* x >> n
RECURSIVE RightShift(_, _)
RightShift(x, n) ==
  IF n = 0 THEN x ELSE RightShift(x \div 2, n - 1)

TRISTATE(a, b) ==
  IF a < b THEN -1 ELSE IF a = b THEN 0 ELSE 1

\* ntohl of four bytes in network order, starting at byte i.
ntohl(bytes, i) ==
  ((bytes[i] * 256 + bytes[i + 1]) * 256 + bytes[i + 2]) * 256 + bytes[i + 3]

tor_addr_to_ipv4h(a) == ntohl(a.addr, 1)

tor_addr_to_mapped_ipv4h(a) == ntohl(a.addr, 13)

tor_addr_is_v4(a) ==
  \/ a.family = AF_INET
  \/ /\ a.family = AF_INET6
     /\ ntohl(a.addr, 1) = 0
     /\ ntohl(a.addr, 5) = 0
     /\ ntohl(a.addr, 9) = 65535

\* Compares the first n bytes of two byte strings, in order.
RECURSIVE memcmp_from(_, _, _, _)
memcmp_from(a1, a2, i, n) ==
  IF i > n THEN 0
  ELSE IF a1[i] # a2[i] THEN TRISTATE(a1[i], a2[i])
  ELSE memcmp_from(a1, a2, i + 1, n)

tor_memcmp(a1, a2, n) == memcmp_from(a1, a2, 1, n)

\* The comparison of two addresses of one family.
compare_same_family(addr1, addr2, mbits) ==
  CASE addr1.family = AF_UNSPEC -> 0
    [] addr1.family = AF_INET ->
         IF mbits <= 0 THEN 0
         ELSE LET m == IF mbits > 32 THEN 32 ELSE mbits
              IN  TRISTATE(RightShift(tor_addr_to_ipv4h(addr1), 32 - m),
                           RightShift(tor_addr_to_ipv4h(addr2), 32 - m))
    [] addr1.family = AF_INET6 ->
         LET m             == IF mbits > 128 THEN 128 ELSE mbits
             bytes         == m \div 8
             leftover_bits == m % 8
             r             == tor_memcmp(addr1.addr, addr2.addr, bytes)
         IN  IF bytes # 0 /\ r # 0 THEN r
             ELSE IF leftover_bits # 0
               THEN TRISTATE(RightShift(addr1.addr[bytes + 1], 8 - leftover_bits),
                             RightShift(addr2.addr[bytes + 1], 8 - leftover_bits))
             ELSE 0
    [] addr1.family = AF_UNIX -> TRISTATE(addr1.at, addr2.at)

\* The comparison of two addresses of different families under CMP_SEMANTIC.
\* The mask counts bits of addr1: 96 bits are taken off it when addr1 is a
\* mapped address, and none when only addr2 is.
compare_semantic(addr1, addr2, mbits) ==
  LET v_family1 == IF addr1.family = AF_INET6 /\ tor_addr_is_v4(addr1)
                     THEN AF_INET ELSE addr1.family
      v_family2 == IF addr2.family = AF_INET6 /\ tor_addr_is_v4(addr2)
                     THEN AF_INET ELSE addr2.family
      a1 == IF addr1.family = AF_INET6 THEN tor_addr_to_mapped_ipv4h(addr1)
                                       ELSE tor_addr_to_ipv4h(addr1)
      a2 == IF addr2.family = AF_INET6 THEN tor_addr_to_mapped_ipv4h(addr2)
                                       ELSE tor_addr_to_ipv4h(addr2)
      m1 == IF addr1.family = AF_INET6 THEN mbits - 96 ELSE mbits
      m  == IF m1 > 32 THEN 32 ELSE m1
  IN  IF mbits = 0 THEN 0
      ELSE IF v_family1 = v_family2
        THEN IF addr1.family = AF_INET6 /\ mbits <= 96 THEN 0
             ELSE TRISTATE(RightShift(a1, 32 - m), RightShift(a2, 32 - m))
      ELSE TRISTATE(addr1.family, addr2.family)

tor_addr_compare_masked(addr1, addr2, mbits, how) ==
  IF addr1.family = addr2.family THEN compare_same_family(addr1, addr2, mbits)
  ELSE IF how = CMP_EXACT THEN TRISTATE(addr1.family, addr2.family)
  ELSE compare_semantic(addr1, addr2, mbits)

tor_addr_compare(addr1, addr2, how) ==
  tor_addr_compare_masked(addr1, addr2, 128, how)

tor_addr_compare_masked_step(addr1, addr2, mbits, how) ==
  cmp_call' = [op |-> "tor_addr_compare_masked", addr1 |-> addr1,
               addr2 |-> addr2, mbits |-> mbits, how |-> how,
               result |-> tor_addr_compare_masked(addr1, addr2, mbits, how)]

tor_addr_compare_step(addr1, addr2, how) ==
  cmp_call' = [op |-> "tor_addr_compare", addr1 |-> addr1,
               addr2 |-> addr2, mbits |-> 128, how |-> how,
               result |-> tor_addr_compare(addr1, addr2, how)]

InitAddr ==
  /\ PtStart
  /\ HibIdle
  /\ CbtIdle
  /\ MemIdle
  /\ AddrIdle

NextAddr ==
  \/ \E addr1, addr2 \in Addrs, mbits \in MaskBits, how \in { CMP_EXACT, CMP_SEMANTIC } :
       /\ tor_addr_compare_masked_step(addr1, addr2, mbits, how)
       /\ UNCHANGED <<ptvars, hibvars, cbtvars, memvars>>
  \/ \E addr1, addr2 \in Addrs, how \in { CMP_EXACT, CMP_SEMANTIC } :
       /\ tor_addr_compare_step(addr1, addr2, how)
       /\ UNCHANGED <<ptvars, hibvars, cbtvars, memvars>>

SpecAddr == InitAddr /\ [][NextAddr]_vars

\* C16: for a fixed mask and comparison mode the comparison is a total
\* order: comparing the two addresses of a call the other way round gives
\* the opposite sign, and whenever addr1 does not follow addr2 and addr2 does
\* not follow a third address, addr1 does not follow the third address.
C16_TotalOrder ==
  cmp_call.op \in { "tor_addr_compare_masked", "tor_addr_compare" } =>
    LET a == cmp_call.addr1
        b == cmp_call.addr2
        m == cmp_call.mbits
        h == cmp_call.how
    IN  /\ tor_addr_compare_masked(b, a, m, h) = 0 - cmp_call.result
        /\ \A c \in Addrs :
             (cmp_call.result <= 0 /\ tor_addr_compare_masked(b, c, m, h) <= 0)
               => tor_addr_compare_masked(a, c, m, h) <= 0

====
